---- MODULE Spec2Model ----
(***************************************************************************)
(* Portfolio trading simulation engine of stock-analysis-app:              *)
(*   app/services/simulation/models/blue_model.py   (BlueModel, the ledger)*)
(*   app/services/simulation/models/trading.py      (data classes)         *)
(*   app/services/simulation/models/parameters.py   (SimulationParameters) *)
(*   app/services/simulation/simulation_engine.py   (SimulationEngine)     *)
(*                                                                         *)
(* Representation.  Python floats are modelled by exact arithmetic:        *)
(*   - prices are whole currency units;                                    *)
(*   - money (cash, fees, totals, values) is kept in thousandths of a unit *)
(*     so that a fee percent given in tenths of a percent is exact;        *)
(*   - an investment amount is kept multiplied by 100 (the percent         *)
(*     denominator), in thousandths;                                       *)
(*   - average_price is an exact fraction <<numerator, denominator>>;      *)
(*   - a datetime is a count of half days, strftime('%Y-%m-%d') of it is   *)
(*     the day number t \div 2, and timedelta(days=1) is 2 half days.      *)
(* Position objects are mutable and are reached by reference: they live in *)
(* heap and the positions maps hold their addresses.                       *)
(* The float specification alone keeps the floats as they are: there the   *)
(* cash, the prices, the fees and the percentages are IEEE 754 binary64    *)
(* values and every operation of the ledger rounds as Python rounds it.    *)
(***************************************************************************)
EXTENDS Integers, Sequences, FiniteSets, TLC

VARIABLES
    parameters,                         \* BlueModel.parameters / SimulationEngine.parameters
    cash,                               \* BlueModel.cash
    positions,                          \* BlueModel.positions: symbol -> address of a Position
    heap,                               \* the Position objects, by address
    transactions,                       \* BlueModel.transactions
    transaction_records,                \* BlueModel.transaction_records
    snapshots,                          \* BlueModel.snapshots
    processed_transaction_signatures,   \* BlueModel.processed_transaction_signatures
    transaction_counter,                \* BlueModel.transaction_counter
    lastOp,                             \* the last call made on the ledger and how it returned
    sizing,                             \* for each recorded transaction, the cash its amount was sized from
    watchlist,                          \* run_simulation's watchlist argument
    progress_callback,                  \* whether run_simulation got a progress observer
    now,                                \* the clock reading of the run
    pc,                                 \* position of run_simulation
    current_date,                       \* run_simulation's current_date
    days_processed,                     \* run_simulation's days_processed
    raised,                             \* the exception run_simulation raised, if any
    results,                            \* the SimulationResults run_simulation returned, if any
    exposure,                           \* for each recorded transaction, its symbol's position value and the portfolio value right after it
    market,                             \* the market data of a scripted run: the fetch outcomes of each day
    calls,                              \* the calls of run_simulation made on the engine
    previous_results,                   \* what the call before the current one returned
    args,                               \* the arguments of a call of a function
    ret                                 \* what that call returned

vars == <<parameters, cash, positions, heap, transactions, transaction_records,
          snapshots, processed_transaction_signatures, transaction_counter,
          lastOp, sizing, watchlist, progress_callback, now, pc, current_date,
          days_processed, raised, results, exposure, market, calls,
          previous_results, args, ret>>

ledgerVars == <<cash, positions, heap, transactions, transaction_records,
                snapshots, processed_transaction_signatures, transaction_counter>>

driverVars == <<watchlist, progress_callback, now, pc, current_date,
                days_processed, raised, results>>

engineVars == <<market, calls, previous_results>>

callVars == <<args, ret>>

(***************************************************************************)
(* Bounds of the model.                                                    *)
(***************************************************************************)
MaxTx == 2          \* executed transactions per ledger in the ledger specification
MaxNow == 3         \* the clock reading (in half days) of a run

\* the datetimes (in half days) handed to the ledger: one day
Dates == {0}

Symbols == {"A", "B"}
SymbolOrder == <<"A", "B">>
Prices == {5, 10}
\* the closes a run's price history can end with, per symbol
RunPrices(symbol) == IF symbol = "A" THEN Prices ELSE {10}

(***************************************************************************)
(* trading.py: SignalType, TransactionType                                 *)
(***************************************************************************)
SignalType == {"Strong Buy", "Buy", "Neutral", "Sell", "Strong Sell"}
TransactionType == {"Buy", "Sell"}

None == [none |-> TRUE]

\* an empty dict
EmptyDict == [s \in {} |-> 0]

Min(a, b) == IF a <= b THEN a ELSE b
Max(a, b) == IF a >= b THEN a ELSE b

RECURSIVE GCD(_, _)
GCD(a, b) == IF b = 0 THEN a ELSE GCD(b, a % b)

\* an exact fraction in lowest terms
Frac(n, d) == <<n \div GCD(n, d), d \div GCD(n, d)>>

RECURSIVE SumSeq(_)
SumSeq(s) == IF s = <<>> THEN 0 ELSE Head(s) + SumSeq(Tail(s))

\* the symbols of a dict in the order SymbolOrder lists them
RECURSIVE KeysInOrder(_, _)
KeysInOrder(order, keys) ==
    IF order = <<>> THEN <<>>
    ELSE IF Head(order) \in keys THEN <<Head(order)>> \o KeysInOrder(Tail(order), keys)
    ELSE KeysInOrder(Tail(order), keys)

(***************************************************************************)
(* trading.py: Position.market_value, in thousandths                       *)
(***************************************************************************)
market_value(pos) == pos.shares * pos.last_price * 1000

\* sum(p.market_value for p in positions.values()), for a positions map over a heap
PositionsValue(posmap, h) ==
    SumSeq([i \in 1..Len(KeysInOrder(SymbolOrder, DOMAIN posmap)) |->
               market_value(h[posmap[KeysInOrder(SymbolOrder, DOMAIN posmap)[i]]])])

\* total_amount with the fees left out
total_amount_without_fees(t) == t.shares * t.price * 1000

(***************************************************************************)
(* trading.py: Transaction.total_amount, in thousandths                    *)
(***************************************************************************)
total_amount(t) ==
    IF t.transaction_type = "Buy"
    THEN (t.shares * t.price * 1000) + t.fees
    ELSE (t.shares * t.price * 1000) - t.fees

(***************************************************************************)
(* trading.py: PortfolioSnapshot.total_value, read through the heap        *)
(***************************************************************************)
total_value(s, h) == s.cash + PositionsValue(s.positions, h)

(***************************************************************************)
(* The ledger as one value: the fields of a BlueModel.                     *)
(***************************************************************************)
Ledger ==
    [cash |-> cash, positions |-> positions, heap |-> heap,
     transactions |-> transactions, transaction_records |-> transaction_records,
     snapshots |-> snapshots,
     processed_transaction_signatures |-> processed_transaction_signatures,
     transaction_counter |-> transaction_counter, sizing |-> sizing,
     exposure |-> exposure]

\* BlueModel.__init__
NewLedger(p) ==
    [cash |-> p.initial_capital * 1000, positions |-> EmptyDict, heap |-> <<>>,
     transactions |-> <<>>, transaction_records |-> <<>>, snapshots |-> <<>>,
     processed_transaction_signatures |-> {}, transaction_counter |-> 0,
     sizing |-> <<>>, exposure |-> <<>>]

\* BlueModel.get_total_portfolio_value
get_total_portfolio_value(L) == L.cash + PositionsValue(L.positions, L.heap)

\* the shares that the amount buys at the price alone, the fee left out
_calculate_max_shares_without_fee(p, price, available_cash) ==
    available_cash \div (100 * price * 1000)

\* BlueModel._calculate_max_shares; available_cash is an amount times 100.
\* int() of a positive quotient is its floor.
_calculate_max_shares(p, price, available_cash) ==
    available_cash \div (100 * price * (1000 + p.transaction_fee_percent))

\* the investment amount without the cap on one position
_calculate_investment_amount_uncapped(p, L, signal, available_cash, current_position_value) ==
    IF signal = "Strong Buy" THEN available_cash * p.strong_buy_percent
    ELSE IF signal = "Buy" THEN available_cash * p.buy_percent
    ELSE IF signal = "Strong Sell" THEN current_position_value * p.strong_sell_percent
    ELSE IF signal = "Sell" THEN current_position_value * p.sell_percent
    ELSE 0

\* BlueModel._calculate_investment_amount; the result is the amount times 100
_calculate_investment_amount(p, L, signal, available_cash, current_position_value) ==
    IF signal \in {"Strong Buy", "Buy"}
    THEN LET base_amount ==
                 IF signal = "Strong Buy"
                 THEN available_cash * p.strong_buy_percent
                 ELSE available_cash * p.buy_percent
             max_allowed == get_total_portfolio_value(L) * p.max_single_position_percent
         IN  Min(base_amount, max_allowed - (current_position_value * 100))
    ELSE IF signal \in {"Strong Sell", "Sell"}
    THEN IF signal = "Strong Sell"
         THEN current_position_value * p.strong_sell_percent
         ELSE current_position_value * p.sell_percent
    ELSE 0

\* a signature that also holds the price
_get_transaction_signature_with_price(date, symbol, transaction_type, shares, price) ==
    <<date \div 2, symbol, transaction_type, shares, price>>

\* BlueModel._get_transaction_signature: f"{date:%Y-%m-%d}_{symbol}_{type}_{shares}".
\* The date loses its time of day, the price is not part of the signature.
_get_transaction_signature(date, symbol, transaction_type, shares, price) ==
    <<date \div 2, symbol, transaction_type, shares>>

\* a sell of the quotient rounded to the nearest share, halves to the even one
SharesToSell_rounded(current_position, amount, current_position_value) ==
    LET n == amount * current_position.shares
        d == current_position_value * 100
        q == n \div d
        nearest == IF 2 * (n % d) < d THEN q
                   ELSE IF 2 * (n % d) > d THEN q + 1
                   ELSE IF q % 2 = 0 THEN q ELSE q + 1
    IN  Min(current_position.shares, Max(1, nearest))

\* a sell of one share whatever the amount
SharesToSell_one(current_position, amount, current_position_value) == 1

\* _execute_transaction, "Calculate shares to sell - ensure at least 1 share is sold".
\* amount is the amount times 100: (amount / current_position_value) * shares,
\* with the quotient in lowest terms to keep the product small.
SharesToSell(current_position, amount, current_position_value) ==
    LET ratio == Frac(amount, current_position_value * 100)
        amount_shares == Max(1, (ratio[1] * current_position.shares) \div ratio[2])
    IN  Min(current_position.shares, amount_shares)

\* the positions dict after a sell that never deletes an entry
PositionsAfterSell_kept(posmap, h, symbol) == posmap

\* _execute_transaction, SELL: "if position.shares == 0: del self.positions[symbol]"
PositionsAfterSell(posmap, h, symbol) ==
    IF h[posmap[symbol]].shares = 0
    THEN [s \in DOMAIN posmap \ {symbol} |-> posmap[s]]
    ELSE posmap

\* a counter that is read but not incremented
StaleCounter(L) == L.transaction_counter

\* _execute_transaction, "Increment transaction sequence counter"
IncrementedCounter(L) == L.transaction_counter + 1

\* a rejected call that has counted a transaction all the same
Rejected_counted(L, why) ==
    [L |-> [L EXCEPT !.transaction_counter = @ + 1], result |-> why, transaction |-> None]

\* a call of _execute_transaction that returns None leaves the ledger as it was
Rejected(L, why) == [L |-> L, result |-> why, transaction |-> None]

\* a sale that marks the position and leaves its shares
SoldFrom_marked_only(position, shares, price) ==
    [position EXCEPT !.last_price = price]

\* _execute_transaction, SELL: "position.shares -= shares" and
\* "position.last_price = price"
SoldFrom(position, shares, price) ==
    [position EXCEPT !.shares = @ - shares, !.last_price = price]

\* a ledger that pays for a sale as for a purchase
CashAfter_always_debited(L, transaction) ==
    L.cash - total_amount(transaction)

\* _execute_transaction, "self.cash -= transaction.total_amount" of a buy and
\* "self.cash += transaction.total_amount" of a sell
CashAfter(L, transaction) ==
    IF transaction.transaction_type = "Buy"
    THEN L.cash - total_amount(transaction)
    ELSE L.cash + total_amount(transaction)

\* BlueModel._execute_transaction, from the duplicate check on
ExecuteChecked(p, L, date, symbol, signal, price, transaction_type, shares) ==
    LET transaction_signature ==
            _get_transaction_signature(date, symbol, transaction_type, shares, price)
    IN
    IF transaction_signature \in L.processed_transaction_signatures
    THEN Rejected(L, "duplicate")
    ELSE
    LET fee == shares * price * p.transaction_fee_percent
        transaction ==
            [date |-> date, symbol |-> symbol, transaction_type |-> transaction_type,
             signal_type |-> signal, shares |-> shares, price |-> price, fees |-> fee]
        heapAfter ==
            IF transaction_type = "Buy"
            THEN IF symbol \notin DOMAIN L.positions
                 THEN Append(L.heap, [symbol |-> symbol, shares |-> shares,
                                      average_price |-> Frac(price, 1),
                                      last_price |-> price])
                 ELSE LET position == L.heap[L.positions[symbol]]
                          \* total_cost = shares * average_price + shares * price, as a fraction
                          total_cost_num ==
                              (position.shares * position.average_price[1])
                              + (shares * price * position.average_price[2])
                          total_shares == position.shares + shares
                      IN  [L.heap EXCEPT ![L.positions[symbol]] =
                              [@ EXCEPT !.average_price =
                                            Frac(total_cost_num,
                                                 position.average_price[2] * total_shares),
                                        !.shares = total_shares,
                                        !.last_price = price]]
            ELSE [L.heap EXCEPT ![L.positions[symbol]] = SoldFrom(@, shares, price)]
        positionsAfter ==
            IF transaction_type = "Buy"
            THEN IF symbol \notin DOMAIN L.positions
                 THEN [s \in DOMAIN L.positions \cup {symbol} |->
                          IF s = symbol THEN Len(L.heap) + 1 ELSE L.positions[s]]
                 ELSE L.positions
            ELSE PositionsAfterSell(L.positions, heapAfter, symbol)
        cashAfter == CashAfter(L, transaction)
        investment_value == PositionsValue(positionsAfter, heapAfter)
        counterAfter == IncrementedCounter(L)
        record ==
            [date |-> transaction.date, symbol |-> transaction.symbol,
             type |-> transaction.transaction_type, signal |-> transaction.signal_type,
             shares |-> transaction.shares, price |-> transaction.price,
             fees |-> transaction.fees, total |-> total_amount(transaction),
             available_capital |-> cashAfter, investment_value |-> investment_value,
             portfolio_total |-> cashAfter + investment_value,
             sequence_num |-> counterAfter]
    IN  [L |-> [L EXCEPT
                  !.processed_transaction_signatures = @ \cup {transaction_signature},
                  !.heap = heapAfter,
                  !.positions = positionsAfter,
                  !.cash = cashAfter,
                  !.transaction_counter = counterAfter,
                  !.transaction_records = Append(@, record),
                  !.transactions = Append(@, transaction),
                  !.sizing = Append(@, L.cash),
                  !.exposure =
                      Append(@, [position |->
                                     IF symbol \in DOMAIN positionsAfter
                                     THEN market_value(heapAfter[positionsAfter[symbol]])
                                     ELSE 0,
                                 portfolio |-> cashAfter + investment_value])],
         result |-> "executed",
         transaction |-> transaction]

\* BlueModel._execute_transaction
_execute_transaction(p, L, date, symbol, signal, price) ==
    LET held == symbol \in DOMAIN L.positions
        current_position == IF held THEN L.heap[L.positions[symbol]] ELSE None
        current_position_value == IF held THEN market_value(current_position) ELSE 0
        amount == _calculate_investment_amount(p, L, signal, L.cash, current_position_value)
    IN
    IF amount <= 0 THEN Rejected(L, "no_amount")
    ELSE IF signal \in {"Strong Buy", "Buy"}
    THEN \* a price of 0 divides by zero in _calculate_max_shares: caught, logged, None
         IF price = 0 THEN Rejected(L, "exception")
         ELSE LET shares == _calculate_max_shares(p, price, amount)
              IN  IF shares <= 0 THEN Rejected(L, "zero_shares")
                  ELSE ExecuteChecked(p, L, date, symbol, signal, price, "Buy", shares)
    ELSE IF (~held) \/ current_position.shares <= 0 THEN Rejected(L, "no_position")
    ELSE LET shares == SharesToSell(current_position, amount, current_position_value)
         IN  IF shares <= 0 THEN Rejected(L, "zero_shares")
             ELSE ExecuteChecked(p, L, date, symbol, signal, price, "Sell", shares)


\* an update that writes the price to every Position object of the symbol, the
\* copies that the snapshots hold included
update_position_values_every_object(L, prices) ==
    [L EXCEPT !.heap =
        [a \in DOMAIN L.heap |->
            IF L.heap[a].symbol \in DOMAIN prices
            THEN [L.heap[a] EXCEPT !.last_price = prices[L.heap[a].symbol]]
            ELSE L.heap[a]]]

\* position values that drop to 0 for the held symbols that have no price
update_position_values_zeroing(L, prices) ==
    [L EXCEPT !.heap =
        [a \in DOMAIN L.heap |->
            IF \E s \in DOMAIN L.positions : L.positions[s] = a
            THEN [L.heap[a] EXCEPT !.last_price =
                     IF L.heap[a].symbol \in DOMAIN prices
                     THEN prices[L.heap[a].symbol] ELSE 0]
            ELSE L.heap[a]]]

\* BlueModel.update_position_values: prices is a dict symbol -> price
update_position_values(L, prices) ==
    [L EXCEPT !.heap =
        [a \in DOMAIN L.heap |->
            IF \E s \in DOMAIN L.positions : L.positions[s] = a /\ s \in DOMAIN prices
            THEN [L.heap[a] EXCEPT !.last_price = prices[L.heap[a].symbol]]
            ELSE L.heap[a]]]

\* the copies of the held Position objects that _create_snapshot allocates
CopiedPositions(L) ==
    LET keys == KeysInOrder(SymbolOrder, DOMAIN L.positions)
    IN  [i \in 1..Len(keys) |->
            LET pos == L.heap[L.positions[keys[i]]]
            IN  [symbol |-> pos.symbol, shares |-> pos.shares,
                 average_price |-> pos.average_price, last_price |-> pos.last_price]]

\* a snapshot's positions dict that holds the live Position objects
SnapshotPositions_shared(L) == L.positions

\* the snapshot's positions dict: each held symbol -> the address of its copy
SnapshotPositions(L) ==
    LET keys == KeysInOrder(SymbolOrder, DOMAIN L.positions)
    IN  [s \in DOMAIN L.positions |->
            Len(L.heap) + (CHOOSE i \in 1..Len(keys) : keys[i] = s)]

\* a snapshot that takes the whole list of transaction records
_create_snapshot_with_all_records(L, date, daily_transactions) ==
    [L EXCEPT !.heap = @ \o CopiedPositions(L),
              !.snapshots =
                  Append(@, [date |-> date, cash |-> L.cash,
                             positions |-> SnapshotPositions(L),
                             daily_transactions |-> daily_transactions,
                             transaction_records |-> L.transaction_records])]

\* BlueModel._create_snapshot
_create_snapshot(L, date, daily_transactions) ==
    LET start_idx ==
            IF daily_transactions # <<>>
            THEN Len(L.transaction_records) - Len(daily_transactions)
            ELSE Len(L.transaction_records)
        \* transaction_records[start_idx:], a negative start_idx counting from the end
        from == IF start_idx >= 0 THEN start_idx
                ELSE Max(0, Len(L.transaction_records) + start_idx)
        current_transaction_records ==
            IF start_idx < Len(L.transaction_records)
            THEN SubSeq(L.transaction_records, from + 1, Len(L.transaction_records))
            ELSE <<>>
        snapshot ==
            [date |-> date, cash |-> L.cash, positions |-> SnapshotPositions(L),
             daily_transactions |-> daily_transactions,
             transaction_records |-> current_transaction_records]
    IN  [L EXCEPT !.heap = @ \o CopiedPositions(L),
                  !.snapshots = Append(@, snapshot)]

\* what process_signals carries through its loops: the ledger, daily_transactions,
\* the calls of _execute_transaction made so far with how each returned, and the
\* number of calls of update_position_values made so far
Carried(L) == [L |-> L, daily_transactions |-> <<>>, calls |-> <<>>, updates |-> 1]

\* process_signals, after a call of _execute_transaction at the price returned r:
\* "if transaction: daily_transactions.append(transaction)".  The entry of calls
\* records what the call saw: whether the symbol was held and at which last_price.
AfterCall(carried, symbol, price, r) ==
    [L |-> r.L,
     daily_transactions |->
         IF r.result = "executed"
         THEN Append(carried.daily_transactions, r.transaction)
         ELSE carried.daily_transactions,
     calls |-> Append(carried.calls,
                      [symbol |-> symbol, result |-> r.result,
                       held |-> symbol \in DOMAIN carried.L.positions,
                       last_price |->
                           IF symbol \in DOMAIN carried.L.positions
                           THEN carried.L.heap[carried.L.positions[symbol]].last_price
                           ELSE 0,
                       price |-> price,
                       updates |-> carried.updates]),
     updates |-> carried.updates]

\* BlueModel.process_signals, the loop "Process sells first".  signals is a dict in
\* insertion order: a sequence of <<symbol, signal>> items with distinct symbols.
RECURSIVE ProcessSells(_, _, _, _, _)
ProcessSells(p, carried, date, items, prices) ==
    IF items = <<>> THEN carried
    ELSE IF /\ Head(items)[2] \in {"Strong Sell", "Sell"}
            /\ Head(items)[1] \in DOMAIN carried.L.positions
    THEN ProcessSells(p,
             AfterCall(carried, Head(items)[1], prices[Head(items)[1]],
                 _execute_transaction(p, carried.L, date, Head(items)[1], Head(items)[2],
                                      prices[Head(items)[1]])),
             date, Tail(items), prices)
    ELSE ProcessSells(p, carried, date, Tail(items), prices)

\* BlueModel.process_signals, the loop "Then process buys"
RECURSIVE ProcessBuys(_, _, _, _, _)
ProcessBuys(p, carried, date, items, prices) ==
    IF items = <<>> THEN carried
    ELSE IF Head(items)[2] \in {"Strong Buy", "Buy"}
    THEN ProcessBuys(p,
             AfterCall(carried, Head(items)[1], prices[Head(items)[1]],
                 _execute_transaction(p, carried.L, date, Head(items)[1], Head(items)[2],
                                      prices[Head(items)[1]])),
             date, Tail(items), prices)
    ELSE ProcessBuys(p, carried, date, Tail(items), prices)

\* process_signals, "Create daily snapshot with current prices"
Snapshotted(carried, date) ==
    [carried EXCEPT !.L = _create_snapshot(@, date, carried.daily_transactions)]

\* process_signals with the two loops in the other order
process_signals_buys_first(p, L, date, signals, prices) ==
    Snapshotted(
        ProcessSells(p,
            ProcessBuys(p, Carried(update_position_values(L, prices)), date, signals, prices),
            date, signals, prices),
        date)

\* BlueModel.process_signals: the ledger after it, the daily_transactions it returns
\* and the calls of _execute_transaction it made
process_signals(p, L, date, signals, prices) ==
    Snapshotted(
        ProcessBuys(p,
            ProcessSells(p, Carried(update_position_values(L, prices)), date, signals, prices),
            date, signals, prices),
        date)


(***************************************************************************)
(* parameters.py: SimulationParameters.  transaction_fee_percent is in     *)
(* tenths of a percent (the default 0.1 is 1), so its valid range 0..100   *)
(* percent is 0..1000; the four investment_rules are fields of the record. *)
(***************************************************************************)
Percentages(p) ==
    <<p.transaction_fee_percent, p.max_single_position_percent * 10,
      p.strong_buy_percent * 10, p.buy_percent * 10,
      p.sell_percent * 10, p.strong_sell_percent * 10>>

\* SimulationParameters.is_valid, at the clock reading t
is_valid(p, t) ==
    LET valid_percentages ==
            \A i \in DOMAIN Percentages(p) : 0 <= Percentages(p)[i] /\ Percentages(p)[i] <= 1000
        valid_capital == p.initial_capital > 0
        valid_date == p.start_date < t
    IN  valid_percentages /\ valid_capital /\ valid_date

PercentageNames ==
    <<"Transaction fee", "Maximum position", "Investment rule 'strong_buy_percent'",
      "Investment rule 'buy_percent'", "Investment rule 'sell_percent'",
      "Investment rule 'strong_sell_percent'">>

RECURSIVE PercentageErrors(_, _)
PercentageErrors(p, i) ==
    IF i > Len(PercentageNames) THEN <<>>
    ELSE (IF ~(0 <= Percentages(p)[i] /\ Percentages(p)[i] <= 1000)
          THEN <<PercentageNames[i] \o " must be between 0 and 100 percent">>
          ELSE <<>>) \o PercentageErrors(p, i + 1)

\* validation errors that stop at the first violated constraint
get_validation_errors_first(p, t) ==
    IF p.initial_capital <= 0 THEN <<"Initial capital must be greater than 0">>
    ELSE IF p.start_date >= t THEN <<"Start date must be in the past">>
    ELSE SubSeq(PercentageErrors(p, 1), 1, 1)

\* SimulationParameters.get_validation_errors, at the clock reading t
get_validation_errors(p, t) ==
    (IF p.initial_capital <= 0 THEN <<"Initial capital must be greater than 0">> ELSE <<>>)
    \o (IF p.start_date >= t THEN <<"Start date must be in the past">> ELSE <<>>)
    \o PercentageErrors(p, 1)

(***************************************************************************)
(* simulation_engine.py: SimulationEngine                                  *)
(***************************************************************************)
Range(f) == {f[x] : x \in DOMAIN f}

\* What one day's price fetch can give for a symbol: nothing (the fetch failed or
\* gave fewer than 30 bars, the symbol is skipped) or the latest close and a signal.
Skipped == [fetched |-> FALSE]
FetchOutcomes(symbol) ==
    {Skipped} \cup {[fetched |-> TRUE, price |-> c, signal |-> g] :
                       c \in RunPrices(symbol), g \in SignalType}

\* a list of items that takes every item as a new one
SetItem_appended(items, symbol, signal_type) == Append(items, <<symbol, signal_type>>)

\* signals[symbol] = signal_type on a dict in insertion order: a key that is there
\* keeps its place and gets the new value, a new key goes to the end
SetItem(items, symbol, signal_type) ==
    IF \E i \in DOMAIN items : items[i][1] = symbol
    THEN [i \in DOMAIN items |->
             IF items[i][1] = symbol THEN <<symbol, signal_type>> ELSE items[i]]
    ELSE Append(items, <<symbol, signal_type>>)

\* SimulationEngine._generate_signals_and_prices, the loop over the symbols from the
\* i-th on; f[i] is the outcome of the fetch for the i-th entry of the list
RECURSIVE GenerateSignals(_, _, _, _)
GenerateSignals(symbols, f, i, signals) ==
    IF i > Len(symbols) THEN signals
    ELSE IF f[i].fetched
    THEN GenerateSignals(symbols, f, i + 1, SetItem(signals, symbols[i], f[i].signal))
    ELSE GenerateSignals(symbols, f, i + 1, signals)

\* SimulationEngine._generate_signals_and_prices, for the fetch outcomes f of the day:
\* the signals dict in insertion order and the prices dict
SignalsOf(symbols, f) == GenerateSignals(symbols, f, 1, <<>>)

PricesOf(symbols, f) ==
    LET fetched == {i \in 1..Len(symbols) : f[i].fetched}
    IN  [s \in {symbols[i] : i \in fetched} |->
            f[CHOOSE i \in fetched :
                  /\ symbols[i] = s
                  /\ \A j \in fetched : symbols[j] = s => j <= i].price]

\* a signature that leaves out the date
get_signature_without_date(record) == <<record.symbol, record.type, record.shares>>

\* TransactionRecord.get_signature
get_signature(record) == <<record.date \div 2, record.symbol, record.type, record.shares>>

RECURSIVE Flatten(_)
Flatten(ss) == IF ss = <<>> THEN <<>> ELSE Head(ss) \o Flatten(Tail(ss))

\* _calculate_metrics, "Get transaction records with deduplication"
RECURSIVE UniqueRecords(_, _)
UniqueRecords(records, transaction_signatures) ==
    IF records = <<>> THEN <<>>
    ELSE IF get_signature(Head(records)) \in transaction_signatures
    THEN UniqueRecords(Tail(records), transaction_signatures)
    ELSE <<Head(records)>>
         \o UniqueRecords(Tail(records), transaction_signatures \cup {get_signature(Head(records))})

\* a float that is not a number, among the exact fractions
NaN == <<0, 0>>

\* the later of two drawdowns, whichever is smaller
MinDrawdown_latest(worst, drawdown) ==
    IF drawdown = NaN THEN worst ELSE drawdown

\* the smaller of two drawdowns (value - rolling_max) / rolling_max held as the exact
\* fractions of their absolute values, the way min() compares them: it skips what
\* is not a number
MinDrawdown(worst, drawdown) ==
    IF drawdown = NaN THEN worst
    ELSE IF worst = NaN THEN drawdown
    ELSE IF drawdown[1] * worst[2] > worst[1] * drawdown[2] THEN drawdown
    ELSE worst

\* _calculate_metrics, "Calculate maximum drawdown": the pass over the values from
\* the i-th on, with rolling_max = portfolio_values.expanding().max() before it and
\* worst the least (value - rolling_max) / rolling_max so far.  0 / 0 is not a number.
RECURSIVE DrawdownScan(_, _, _, _)
DrawdownScan(values, i, rolling_max, worst) ==
    IF i > Len(values) THEN worst
    ELSE DrawdownScan(values, i + 1, Max(rolling_max, values[i]),
             MinDrawdown(worst,
                 IF Max(rolling_max, values[i]) = 0 THEN NaN
                 ELSE Frac(Max(rolling_max, values[i]) - values[i],
                           Max(rolling_max, values[i]))))

\* abs(drawdowns.min()) * 100 as an exact fraction, for values >= 0; the min() of
\* nothing is not a number either
PercentOf(worst) ==
    IF worst = NaN THEN NaN ELSE Frac(worst[1] * 100, worst[2])

\* _calculate_metrics, "max_drawdown = abs(drawdowns.min()) * 100"
max_drawdown(values) ==
    PercentOf(DrawdownScan(values, 1, 0, NaN))

\* one completed trade of _calculate_metrics: shares_sold of the sell t matched with
\* the lot buy_position.  profit is an exact fraction of thousandths; the dict of
\* the code holds profit and holding_period, the other fields record the locals.
CompletedTrade(t, buy_position, shares_sold) ==
    [profit |->
         LET buy_fees == Frac(buy_position.fees * shares_sold, buy_position.shares)
             sell_fees == Frac(t.fees * shares_sold, t.shares)
         IN  Frac((((shares_sold * t.price * 1000) - (shares_sold * buy_position.price * 1000))
                      * (buy_fees[2] * sell_fees[2]))
                  - (sell_fees[1] * buy_fees[2])
                  - (buy_fees[1] * sell_fees[2]),
                  buy_fees[2] * sell_fees[2]),
     holding_period |-> (t.date - buy_position.date) \div 2,
     symbol |-> t.symbol,
     buy_date |-> buy_position.date,
     shares_sold |-> shares_sold,
     buy_fees |-> Frac(buy_position.fees * shares_sold, buy_position.shares)]

\* a matching that takes the newest lot first
RECURSIVE MatchLots_newest_first(_, _, _, _)
MatchLots_newest_first(t, lots, shares_to_match, completed_trades) ==
    IF lots = <<>> \/ shares_to_match <= 0
    THEN [lots |-> lots, completed_trades |-> completed_trades]
    ELSE LET buy_position == lots[Len(lots)]
             shares_sold == Min(buy_position.shares, shares_to_match)
             front == SubSeq(lots, 1, Len(lots) - 1)
         IN  MatchLots_newest_first(t,
                 IF buy_position.shares - shares_sold <= 0 THEN front
                 ELSE Append(front, [buy_position EXCEPT !.shares = @ - shares_sold]),
                 shares_to_match - shares_sold,
                 Append(completed_trades, CompletedTrade(t, buy_position, shares_sold)))

\* _calculate_metrics, "Match FIFO for completed trades": the while loop over the
\* lots of the sold symbol
RECURSIVE MatchLots(_, _, _, _)
MatchLots(t, lots, shares_to_match, completed_trades) ==
    IF lots = <<>> \/ shares_to_match <= 0
    THEN [lots |-> lots, completed_trades |-> completed_trades]
    ELSE LET buy_position == Head(lots)
             shares_sold == Min(buy_position.shares, shares_to_match)
         IN  MatchLots(t,
                 IF buy_position.shares - shares_sold <= 0 THEN Tail(lots)
                 ELSE <<[buy_position EXCEPT !.shares = @ - shares_sold]>> \o Tail(lots),
                 shares_to_match - shares_sold,
                 Append(completed_trades, CompletedTrade(t, buy_position, shares_sold)))

\* _calculate_metrics, "Calculate win rate and holding periods": the loop over the
\* transactions from the i-th on
RECURSIVE CompletedTrades(_, _, _, _)
CompletedTrades(txs, i, position_start_dates, completed_trades) ==
    IF i > Len(txs)
    THEN [completed_trades |-> completed_trades,
          position_start_dates |-> position_start_dates]
    ELSE LET t == txs[i]
             known == t.symbol \in DOMAIN position_start_dates
         IN  IF t.transaction_type = "Buy"
             THEN LET lot == [date |-> t.date, price |-> t.price,
                              shares |-> t.shares, fees |-> t.fees]
                  IN  CompletedTrades(txs, i + 1,
                          [y \in DOMAIN position_start_dates \cup {t.symbol} |->
                              IF y = t.symbol
                              THEN (IF known THEN position_start_dates[y] ELSE <<>>) \o <<lot>>
                              ELSE position_start_dates[y]],
                          completed_trades)
             ELSE IF known
             THEN LET matched == MatchLots(t, position_start_dates[t.symbol], t.shares,
                                           completed_trades)
                  IN  CompletedTrades(txs, i + 1,
                          IF matched.lots = <<>>
                          THEN [y \in DOMAIN position_start_dates \ {t.symbol} |->
                                   position_start_dates[y]]
                          ELSE [position_start_dates EXCEPT ![t.symbol] = matched.lots],
                          matched.completed_trades)
             ELSE CompletedTrades(txs, i + 1, position_start_dates, completed_trades)

\* _calculate_metrics, "results = {...}": the dictionary built from the locals
MetricsResults(p, snaps, portfolio_values, txs, unique_transaction_records, completed_trades) ==
    [initial_capital |-> p.initial_capital * 1000,
     final_portfolio_value |-> IF snaps # <<>> THEN portfolio_values[Len(snaps)] ELSE 0,
     total_return |->
         IF snaps # <<>> THEN portfolio_values[Len(snaps)] - (p.initial_capital * 1000) ELSE 0,
     max_drawdown |-> max_drawdown(portfolio_values),
     number_of_trades |-> Len(txs),
     win_rate |->
         IF completed_trades # <<>>
         THEN Frac(Cardinality({i \in 1..Len(completed_trades) :
                                   completed_trades[i].profit[1] > 0}) * 100,
                   Len(completed_trades))
         ELSE Frac(0, 1),
     avg_holding_period |->
         IF completed_trades # <<>>
         THEN Frac(SumSeq([i \in 1..Len(completed_trades) |->
                              completed_trades[i].holding_period]),
                   Len(completed_trades))
         ELSE Frac(0, 1),
     transactions |-> txs,
     transaction_records |-> unique_transaction_records,
     portfolio_values |-> portfolio_values,
     cash_values |-> [i \in 1..Len(snaps) |-> snaps[i].cash]]

\* _calculate_metrics, "Get transaction records with deduplication": "If there are
\* no unique records but we have transactions, use those"
UniqueTransactionRecords(deduplicated, txs) ==
    IF Len(deduplicated) = 0 /\ Len(txs) > 0
    THEN [i \in 1..Len(txs) |->
             [date |-> txs[i].date, symbol |-> txs[i].symbol,
              type |-> txs[i].transaction_type, signal |-> txs[i].signal_type,
              shares |-> txs[i].shares, price |-> txs[i].price,
              fees |-> txs[i].fees, total |-> total_amount(txs[i]),
              available_capital |-> 0, investment_value |-> 0,
              portfolio_total |-> 0, sequence_num |-> 0]]
    ELSE deduplicated

\* _calculate_metrics once the transactions txs of the snapshots are collected
MetricsOfTransactions(p, snaps, h, txs) ==
    MetricsResults(p, snaps,
        [i \in 1..Len(snaps) |-> total_value(snaps[i], h)],
        txs,
        UniqueTransactionRecords(
            UniqueRecords(Flatten([i \in 1..Len(snaps) |-> snaps[i].transaction_records]), {}),
            txs),
        CompletedTrades(txs, 1, EmptyDict, <<>>).completed_trades)

\* SimulationEngine._calculate_metrics: the fields that are sums and lists
_calculate_metrics(p, snaps, h) ==
    MetricsOfTransactions(p, snaps, h,
        SelectSeq(Flatten([i \in 1..Len(snaps) |-> snaps[i].daily_transactions]),
                  LAMBDA t : t.shares > 0))


(***************************************************************************)
(* watchlist_analyzer.py: WatchlistAnalyzer._analyze_macd_signal.  A trend *)
(* strength and a threshold are in tenths.                                 *)
(***************************************************************************)
\* params.get(key, {}).get('trend_strength', default)
Threshold(params, key, default) ==
    IF key \notin DOMAIN params THEN default
    ELSE IF "trend_strength" \notin DOMAIN params[key] THEN default
    ELSE params[key].trend_strength

\* the chain of rules with the sell rules first
Classify_sells_first(strength, strong_buy, buy, sell, strong_sell) ==
    IF strength <= strong_sell THEN "Strong Sell"
    ELSE IF strength <= sell THEN "Sell"
    ELSE IF strength >= strong_buy THEN "Strong Buy"
    ELSE IF strength >= buy THEN "Buy"
    ELSE "Neutral"

\* _analyze_macd_signal, the chain of rules on the strength and the four thresholds
Classify(strength, strong_buy, buy, sell, strong_sell) ==
    IF strength >= strong_buy THEN "Strong Buy"
    ELSE IF strength >= buy THEN "Buy"
    ELSE IF strength <= strong_sell THEN "Strong Sell"
    ELSE IF strength <= sell THEN "Sell"
    ELSE "Neutral"

\* WatchlistAnalyzer._analyze_macd_signal: macd_values says whether the latest MACD
\* values can be read, strength is what _calculate_trend_strength returns
_analyze_macd_signal(macd_values, strength, params) ==
    IF ~macd_values THEN "Neutral"
    ELSE Classify(strength,
                  Threshold(params, "strong_buy", 5),
                  Threshold(params, "buy", 0),
                  Threshold(params, "sell", 0),
                  Threshold(params, "strong_sell", -5))

(***************************************************************************)
(* The parameter objects of the model.                                     *)
(***************************************************************************)
\* SimulationParameters.get_default, with the capital scaled down to 100
DefaultParameters ==
    [start_date |-> 0, initial_capital |-> 100, transaction_fee_percent |-> 1,
     strong_buy_percent |-> 20, buy_percent |-> 10, sell_percent |-> 50,
     strong_sell_percent |-> 100, max_single_position_percent |-> 20]

\* no fee and no cap on one position
LooseParameters ==
    [DefaultParameters EXCEPT !.transaction_fee_percent = 0,
                              !.max_single_position_percent = 100]

\* the defaults with twice the capital and a cap of 30 percent on one position
CappedParameters ==
    [DefaultParameters EXCEPT !.initial_capital = 200, !.max_single_position_percent = 30]

LedgerParameters == {CappedParameters, LooseParameters}

RunParameters ==
    {[p EXCEPT !.start_date = d, !.initial_capital = c, !.strong_buy_percent = sb] :
        p \in {DefaultParameters, LooseParameters},
        d \in 0..(MaxNow + 1), c \in {0, 100}, sb \in {20, 150}}

Watchlists == {<<"A">>, <<"B", "A">>, <<"A", "A">>}

\* what one day's fetches can give for the entries of a watchlist, entry by entry
RECURSIVE FetchChoices(_)
FetchChoices(symbols) ==
    IF symbols = <<>> THEN {<<>>}
    ELSE {<<o>> \o rest : o \in FetchOutcomes(Head(symbols)),
                          rest \in FetchChoices(Tail(symbols))}

SetLedger(L) ==
    /\ cash' = L.cash
    /\ positions' = L.positions
    /\ heap' = L.heap
    /\ transactions' = L.transactions
    /\ transaction_records' = L.transaction_records
    /\ snapshots' = L.snapshots
    /\ processed_transaction_signatures' = L.processed_transaction_signatures
    /\ transaction_counter' = L.transaction_counter
    /\ sizing' = L.sizing
    /\ exposure' = L.exposure

\* partial maps from symbols to prices
PriceDicts == UNION {[S -> Prices] : S \in SUBSET Symbols}

(***************************************************************************)
(* The ledger specification: a BlueModel and any sequence of calls of      *)
(* _execute_transaction and update_position_values on it.                  *)
(***************************************************************************)
Init ==
    /\ parameters \in LedgerParameters
    /\ cash = NewLedger(parameters).cash
    /\ positions = NewLedger(parameters).positions
    /\ heap = NewLedger(parameters).heap
    /\ transactions = NewLedger(parameters).transactions
    /\ transaction_records = NewLedger(parameters).transaction_records
    /\ snapshots = NewLedger(parameters).snapshots
    /\ processed_transaction_signatures = NewLedger(parameters).processed_transaction_signatures
    /\ transaction_counter = NewLedger(parameters).transaction_counter
    /\ sizing = NewLedger(parameters).sizing
    /\ exposure = NewLedger(parameters).exposure
    /\ lastOp = [op |-> "__init__", result |-> "returned"]
    /\ watchlist = <<>>
    /\ progress_callback = FALSE
    /\ now = MaxNow
    /\ pc = "idle"
    /\ current_date = 0
    /\ days_processed = 0
    /\ raised = None
    /\ results = None
    /\ market = <<>>
    /\ calls = IF pc = "call" THEN 1 ELSE 0
    /\ previous_results = None
    /\ args = None
    /\ ret = None

\* a call of BlueModel._execute_transaction
Execute(date, symbol, signal, price) ==
    /\ pc = "idle"
    /\ \E r \in {_execute_transaction(parameters, Ledger, date, symbol, signal, price)} :
           /\ Len(r.L.transactions) <= MaxTx
           /\ SetLedger(r.L)
           /\ lastOp' = [op |-> "_execute_transaction", result |-> r.result]
    /\ UNCHANGED <<parameters, driverVars, engineVars, callVars>>

\* a call of BlueModel.update_position_values
UpdatePositionValues(prices) ==
    /\ pc = "idle"
    /\ \E after \in {update_position_values(Ledger, prices)} : SetLedger(after)
    /\ lastOp' = [op |-> "update_position_values", result |-> "returned"]
    /\ UNCHANGED <<parameters, driverVars, engineVars, callVars>>

Next ==
    \/ \E date \in Dates, symbol \in Symbols, signal \in SignalType,
          price \in Prices \cup {0} :
           Execute(date, symbol, signal, price)
    \/ \E prices \in PriceDicts : UpdatePositionValues(prices)

Spec == Init /\ [][Next]_vars


(***************************************************************************)
(* The run specification: a SimulationEngine and one call of               *)
(* run_simulation on it, one step per pass of its loop over the days.      *)
(***************************************************************************)
InitRun ==
    /\ parameters \in RunParameters
    /\ cash = NewLedger(parameters).cash
    /\ positions = NewLedger(parameters).positions
    /\ heap = NewLedger(parameters).heap
    /\ transactions = NewLedger(parameters).transactions
    /\ transaction_records = NewLedger(parameters).transaction_records
    /\ snapshots = NewLedger(parameters).snapshots
    /\ processed_transaction_signatures = NewLedger(parameters).processed_transaction_signatures
    /\ transaction_counter = NewLedger(parameters).transaction_counter
    /\ sizing = NewLedger(parameters).sizing
    /\ exposure = NewLedger(parameters).exposure
    /\ lastOp = [op |-> "__init__", result |-> "returned"]
    /\ watchlist \in Watchlists
    /\ progress_callback \in BOOLEAN
    /\ now = MaxNow
    /\ pc = "call"
    /\ current_date = 0
    /\ days_processed = 0
    /\ raised = None
    /\ results = None
    /\ market = <<>>
    /\ calls = IF pc = "call" THEN 1 ELSE 0
    /\ previous_results = None
    /\ args = None
    /\ ret = None

\* one day's calls on the model without a snapshot on a day without signals
ProcessDay_without_empty_snapshot(p, L, date, signals, prices) ==
    IF signals # <<>>
    THEN [process_signals(p, update_position_values(L, prices), date, signals, prices)
             EXCEPT !.updates = @ + 1]
    ELSE Carried(update_position_values(L, prices))

\* run_simulation, one day's calls on the model: "Even if no trades, update position
\* values", then process_signals, or _create_snapshot when there is no signal
ProcessDay(p, L, date, signals, prices) ==
    IF signals # <<>>
    THEN [process_signals(p, update_position_values(L, prices), date, signals, prices)
             EXCEPT !.updates = @ + 1]
    ELSE Carried(_create_snapshot(update_position_values(L, prices), date, <<>>))

\* run_simulation's total_days: timedelta.days of end_date - start_date
total_days == (now - parameters.start_date) \div 2

\* run_simulation up to its loop: the validation and the initial dates
Begin ==
    /\ pc = "call"
    /\ IF ~is_valid(parameters, now)
       THEN /\ raised' = [type |-> "ValueError",
                          errors |-> get_validation_errors(parameters, now)]
            /\ pc' = "raised"
            /\ UNCHANGED <<current_date, days_processed>>
       ELSE /\ current_date' = parameters.start_date
            /\ days_processed' = 0
            /\ pc' = "loop"
            /\ UNCHANGED raised
    /\ UNCHANGED <<parameters, ledgerVars, lastOp, sizing, exposure, watchlist,
                   progress_callback, now, results, engineVars, callVars>>

\* one pass of run_simulation's loop, for the fetch outcomes f of the day
Day(f) ==
    /\ pc = "loop"
    /\ current_date <= now
    /\ IF progress_callback /\ total_days = 0
       THEN \* days_processed / total_days divides by zero; the handler logs and re-raises
            /\ raised' = [type |-> "ZeroDivisionError", errors |-> <<>>]
            /\ pc' = "raised"
            /\ UNCHANGED <<ledgerVars, lastOp, sizing, exposure, current_date,
                           days_processed>>
       ELSE \E signals \in {SignalsOf(watchlist, f)}, prices \in {PricesOf(watchlist, f)} :
            \E day \in {ProcessDay(parameters, Ledger, current_date, signals, prices)} :
                /\ SetLedger(day.L)
                /\ lastOp' = [op |-> IF signals # <<>> THEN "process_signals"
                                                       ELSE "_create_snapshot",
                              result |-> "returned",
                              skipped |-> Range(watchlist) \ DOMAIN prices,
                              duplicates |->
                                  Cardinality({i \in 1..Len(day.calls) :
                                                  day.calls[i].result = "duplicate"}),
                              repeated |->
                                  \E i, j \in 1..Len(day.calls) :
                                      i # j /\ day.calls[i].symbol = day.calls[j].symbol,
                              updates |-> day.updates,
                              updated_first |->
                                  \A i \in 1..Len(day.calls) :
                                      day.calls[i].updates + 1 = day.updates,
                              marked |->
                                  \A i \in 1..Len(day.calls) :
                                      day.calls[i].held =>
                                          day.calls[i].last_price = day.calls[i].price]
                /\ current_date' = current_date + 2
                /\ days_processed' = days_processed + 1
                /\ UNCHANGED <<pc, raised>>
    /\ UNCHANGED <<parameters, watchlist, progress_callback, now, results,
                   engineVars, callVars>>

\* run_simulation after its loop: the metrics and the return
Finish ==
    /\ pc = "loop"
    /\ current_date > now
    /\ results' = _calculate_metrics(parameters, snapshots, heap)
    /\ pc' = "done"
    /\ UNCHANGED <<parameters, ledgerVars, lastOp, sizing, exposure, watchlist,
                   progress_callback, now, current_date, days_processed, raised,
                   engineVars, callVars>>

NextRun ==
    \/ Begin
    \/ \E f \in FetchChoices(watchlist) : Day(f)
    \/ Finish

SpecRun == InitRun /\ [][NextRun]_vars


(***************************************************************************)
(* The engine specification: a SimulationEngine over market data that      *)
(* gives the same answer whenever it is asked about the same day, and up   *)
(* to MaxRuns calls of run_simulation on it with a watchlist of one symbol.*)
(***************************************************************************)
MaxDay == 3         \* the days start_date + 1 day ... that a run of the engine simulates
MaxRuns == 2        \* calls of run_simulation on one engine

\* default rules on a capital of 10000
EndToEndParameters == [DefaultParameters EXCEPT !.initial_capital = 10000]

\* what the market data give for the symbol on one day: nothing, or a close of
\* 500 or 1000 with a signal
EngineOutcomes ==
    {Skipped,
     [fetched |-> TRUE, price |-> 1000, signal |-> "Neutral"],
     [fetched |-> TRUE, price |-> 500, signal |-> "Strong Buy"],
     [fetched |-> TRUE, price |-> 500, signal |-> "Strong Sell"],
     [fetched |-> TRUE, price |-> 1000, signal |-> "Strong Sell"]}

InitEngine ==
    /\ parameters = EndToEndParameters
    /\ cash = NewLedger(parameters).cash
    /\ positions = NewLedger(parameters).positions
    /\ heap = NewLedger(parameters).heap
    /\ transactions = NewLedger(parameters).transactions
    /\ transaction_records = NewLedger(parameters).transaction_records
    /\ snapshots = NewLedger(parameters).snapshots
    /\ processed_transaction_signatures = NewLedger(parameters).processed_transaction_signatures
    /\ transaction_counter = NewLedger(parameters).transaction_counter
    /\ sizing = NewLedger(parameters).sizing
    /\ exposure = NewLedger(parameters).exposure
    /\ lastOp = [op |-> "__init__", result |-> "returned"]
    /\ watchlist = <<"A">>
    /\ progress_callback = TRUE
    /\ now = (2 * MaxDay) + 1
    /\ pc = "call"
    /\ current_date = 0
    /\ days_processed = 0
    /\ raised = None
    /\ results = None
    /\ market \in [1..(MaxDay + 1) -> {<<o>> : o \in EngineOutcomes}]
    /\ calls = 1
    /\ previous_results = None
    /\ args = None
    /\ ret = None

\* one pass of run_simulation's loop over the market data of the engine
DayOfMarket ==
    /\ days_processed + 1 \in DOMAIN market
    /\ Day(market[days_processed + 1])

\* one more call of run_simulation on the engine, after the last one returned:
\* self.model is the BlueModel that __init__ made
Rerun ==
    /\ pc = "done"
    /\ calls < MaxRuns
    /\ pc' = "call"
    /\ calls' = calls + 1
    /\ previous_results' = results
    /\ results' = None
    /\ UNCHANGED <<parameters, ledgerVars, lastOp, sizing, exposure, watchlist,
                   progress_callback, now, current_date, days_processed, raised,
                   market, callVars>>

NextEngine ==
    \/ Begin
    \/ DayOfMarket
    \/ Finish
    \/ Rerun

SpecEngine == InitEngine /\ [][NextEngine]_vars

(***************************************************************************)
(* The function specification: one call of _analyze_macd_signal or of      *)
(* _calculate_metrics on arguments drawn from the sets below.              *)
(***************************************************************************)
RuleKeys == {"strong_buy", "buy", "sell", "strong_sell"}
Thresholds == {-5, 0, 5}
Strengths == {-10, -5, -1, 0, 1, 5, 10}

\* what a params dict can hold for a rule: no entry, an entry without a
\* trend_strength, or an entry with one
NoRule == 100
NoTrendStrength == 101
RuleChoices == {NoRule, NoTrendStrength} \cup Thresholds

ParamsOf(c) ==
    [k \in {x \in RuleKeys : c[x] # NoRule} |->
        IF c[k] = NoTrendStrength THEN [macd_threshold |-> 0]
        ELSE [trend_strength |-> c[k]]]

AnalyzeCalls ==
    {[fn |-> "_analyze_macd_signal", macd_values |-> m, strength |-> g,
      params |-> ParamsOf(c)] :
        m \in BOOLEAN, g \in Strengths, c \in [RuleKeys -> RuleChoices]}

\* the portfolio values of the snapshots of a call, in whole units
PortfolioValues == {90, 100, 110, 120}

\* the trades of the snapshots of a call: (symbol, direction, shares, price)
TradeMenu ==
    {<<"A", "Buy", 100, 10>>, <<"A", "Buy", 50, 12>>, <<"A", "Sell", 120, 15>>,
     <<"A", "Sell", 30, 9>>, <<"B", "Buy", 50, 12>>, <<"B", "Sell", 50, 10>>}

MaxLen == 4         \* snapshots in a call of _calculate_metrics

\* all sequences over S of a length from 1 to n
RECURSIVE SeqsUpTo(_, _)
SeqsUpTo(S, n) ==
    IF n = 0 THEN {}
    ELSE SeqsUpTo(S, n - 1) \cup [1..n -> S]

\* the shares of a symbol that the first n trades of a script leave held
RECURSIVE HeldAfter(_, _, _)
HeldAfter(script, symbol, n) ==
    IF n = 0 THEN 0
    ELSE HeldAfter(script, symbol, n - 1)
         + (IF script[n][1] # symbol THEN 0
            ELSE IF script[n][2] = "Buy" THEN script[n][3] ELSE 0 - script[n][3])

\* the scripts a ledger can produce: no sell of more shares than are held
TradeScripts ==
    {script \in SeqsUpTo(TradeMenu, MaxLen) :
        \A n \in 1..Len(script) : \A y \in Symbols : HeldAfter(script, y, n) >= 0}

\* the Transaction of the day-th day of a script, as _execute_transaction builds it
ScriptedTransaction(p, trade, day) ==
    [date |-> 2 * (day - 1), symbol |-> trade[1], transaction_type |-> trade[2],
     signal_type |-> IF trade[2] = "Buy" THEN "Strong Buy" ELSE "Strong Sell",
     shares |-> trade[3], price |-> trade[4],
     fees |-> trade[3] * trade[4] * p.transaction_fee_percent]

\* snapshots without positions that show the given portfolio values
ValueSnapshots(values) ==
    [i \in 1..Len(values) |->
        [date |-> 2 * (i - 1), cash |-> values[i] * 1000, positions |-> EmptyDict,
         daily_transactions |-> <<>>, transaction_records |-> <<>>]]

\* snapshots that hold the trades of a script, one a day
TradeSnapshots(p, script) ==
    [i \in 1..Len(script) |->
        [date |-> 2 * (i - 1), cash |-> p.initial_capital * 1000, positions |-> EmptyDict,
         daily_transactions |-> <<ScriptedTransaction(p, script[i], i)>>,
         transaction_records |-> <<>>]]

MetricsCalls ==
    {[fn |-> "_calculate_metrics", snapshots |-> ValueSnapshots(values)] :
        values \in SeqsUpTo(PortfolioValues, MaxLen)}
    \cup {[fn |-> "_calculate_metrics", snapshots |-> TradeSnapshots(DefaultParameters, script)] :
             script \in TradeScripts}

InitFunctions ==
    /\ parameters = DefaultParameters
    /\ cash = NewLedger(parameters).cash
    /\ positions = NewLedger(parameters).positions
    /\ heap = NewLedger(parameters).heap
    /\ transactions = NewLedger(parameters).transactions
    /\ transaction_records = NewLedger(parameters).transaction_records
    /\ snapshots = NewLedger(parameters).snapshots
    /\ processed_transaction_signatures = NewLedger(parameters).processed_transaction_signatures
    /\ transaction_counter = NewLedger(parameters).transaction_counter
    /\ sizing = NewLedger(parameters).sizing
    /\ exposure = NewLedger(parameters).exposure
    /\ lastOp = [op |-> "__init__", result |-> "returned"]
    /\ watchlist = <<>>
    /\ progress_callback = FALSE
    /\ now = MaxNow
    /\ pc = "function"
    /\ current_date = 0
    /\ days_processed = 0
    /\ raised = None
    /\ results = None
    /\ market = <<>>
    /\ calls = 0
    /\ previous_results = None
    /\ args \in AnalyzeCalls \cup MetricsCalls
    /\ ret = None

\* the call of WatchlistAnalyzer._analyze_macd_signal
AnalyzeMacdSignal ==
    /\ pc = "function"
    /\ args.fn = "_analyze_macd_signal"
    /\ ret = None
    /\ ret' = [signal |-> _analyze_macd_signal(args.macd_values, args.strength, args.params)]
    /\ UNCHANGED <<parameters, ledgerVars, lastOp, sizing, exposure, driverVars,
                   engineVars, args>>

\* the call of SimulationEngine._calculate_metrics, with the completed trades and
\* the open lots its loop ends with
CalculateMetrics ==
    /\ pc = "function"
    /\ args.fn = "_calculate_metrics"
    /\ ret = None
    /\ ret' = [results |-> _calculate_metrics(parameters, args.snapshots, heap),
               matched |-> CompletedTrades(
                               _calculate_metrics(parameters, args.snapshots, heap).transactions,
                               1, EmptyDict, <<>>)]
    /\ UNCHANGED <<parameters, ledgerVars, lastOp, sizing, exposure, driverVars,
                   engineVars, args>>

NextFunctions ==
    \/ AnalyzeMacdSignal
    \/ CalculateMetrics

SpecFunctions == InitFunctions /\ [][NextFunctions]_vars


(***************************************************************************)
(* The floats of Python as they are: IEEE 754 binary64, every operation    *)
(* rounded to 53 significant bits, ties to even.  A float is a record      *)
(* [neg, m, e] of the value (-1)^neg * m * 2^e; m is a natural number of   *)
(* at most 53 bits written as its digits in base 2^15, lowest first, and   *)
(* is odd unless it is 0, so that equal values are equal records.  The     *)
(* values of the ledger are far from the overflow and the subnormal        *)
(* ranges, which are left out.                                             *)
(***************************************************************************)
Base == 32768

RECURSIVE Pow2(_)
Pow2(n) == IF n = 0 THEN 1 ELSE 2 * Pow2(n - 1)

\* the digits of a natural number
RECURSIVE BigOf(_)
BigOf(n) == IF n = 0 THEN <<>> ELSE <<n % Base>> \o BigOf(n \div Base)

\* the natural number of a few digits
RECURSIVE SmallOf(_)
SmallOf(a) == IF a = <<>> THEN 0 ELSE Head(a) + (Base * SmallOf(Tail(a)))

\* without the zero digits at the top
RECURSIVE BigTrim(_)
BigTrim(a) ==
    IF a = <<>> THEN a
    ELSE IF a[Len(a)] = 0 THEN BigTrim(SubSeq(a, 1, Len(a) - 1))
    ELSE a

RestOf(a) == IF a = <<>> THEN <<>> ELSE Tail(a)
DigitOf(a) == IF a = <<>> THEN 0 ELSE Head(a)

\* a + b + carry
RECURSIVE BigAddC(_, _, _)
BigAddC(a, b, carry) ==
    IF a = <<>> /\ b = <<>> THEN BigOf(carry)
    ELSE <<(DigitOf(a) + DigitOf(b) + carry) % Base>>
         \o BigAddC(RestOf(a), RestOf(b), (DigitOf(a) + DigitOf(b) + carry) \div Base)

BigAdd(a, b) == BigAddC(a, b, 0)

\* a - b - borrow, for a >= b + borrow
RECURSIVE BigSubB(_, _, _)
BigSubB(a, b, borrow) ==
    IF a = <<>> THEN <<>>
    ELSE <<(Base + Head(a) - DigitOf(b) - borrow) % Base>>
         \o BigSubB(Tail(a), RestOf(b),
                    IF Head(a) - DigitOf(b) - borrow < 0 THEN 1 ELSE 0)

BigSub(a, b) == BigTrim(BigSubB(a, b, 0))

\* -1, 0 or 1 as a is below, equal to or above b in the digits up to the i-th
RECURSIVE BigCmpAt(_, _, _)
BigCmpAt(a, b, i) ==
    IF i = 0 THEN 0
    ELSE IF a[i] < b[i] THEN -1
    ELSE IF a[i] > b[i] THEN 1
    ELSE BigCmpAt(a, b, i - 1)

BigCmp(a, b) ==
    IF Len(a) < Len(b) THEN -1
    ELSE IF Len(a) > Len(b) THEN 1
    ELSE BigCmpAt(a, b, Len(a))

\* a * k + carry for a digit k >= 1
RECURSIVE BigMulSmall(_, _, _)
BigMulSmall(a, k, carry) ==
    IF a = <<>> THEN BigOf(carry)
    ELSE <<((Head(a) * k) + carry) % Base>>
         \o BigMulSmall(Tail(a), k, ((Head(a) * k) + carry) \div Base)

RECURSIVE BigMul(_, _)
BigMul(a, b) ==
    IF a = <<>> \/ b = <<>> THEN <<>>
    ELSE IF Head(b) = 0 THEN <<0>> \o BigMul(a, Tail(b))
    ELSE BigAdd(BigMulSmall(a, Head(b), 0),
                IF Tail(b) = <<>> THEN <<>> ELSE <<0>> \o BigMul(a, Tail(b)))

\* a * 2^n
BigShl(a, n) ==
    IF a = <<>> THEN <<>>
    ELSE [i \in 1..(n \div 15) |-> 0] \o BigMulSmall(a, Pow2(n % 15), 0)

\* the digits up to the i-th of a \div k for a digit k >= 1, rem being what the
\* digits above have left
RECURSIVE BigDivSmallAt(_, _, _, _)
BigDivSmallAt(a, k, i, rem) ==
    IF i = 0 THEN <<>>
    ELSE BigDivSmallAt(a, k, i - 1, ((rem * Base) + a[i]) % k)
         \o <<((rem * Base) + a[i]) \div k>>

\* a \div 2^n
BigShr(a, n) ==
    IF Len(a) <= n \div 15 THEN <<>>
    ELSE BigTrim(BigDivSmallAt(SubSeq(a, (n \div 15) + 1, Len(a)), Pow2(n % 15),
                               Len(a) - (n \div 15), 0))

RECURSIVE SmallBits(_)
SmallBits(x) == IF x = 0 THEN 0 ELSE 1 + SmallBits(x \div 2)

\* the number of bits of a
BitLength(a) == IF a = <<>> THEN 0 ELSE (15 * (Len(a) - 1)) + SmallBits(a[Len(a)])

\* the greatest digit k from lo to hi with d * k <= r, for d * lo <= r
RECURSIVE DivDigit(_, _, _, _)
DivDigit(r, d, lo, hi) ==
    IF lo = hi THEN lo
    ELSE IF BigCmp(BigMulSmall(d, (lo + hi + 1) \div 2, 0), r) <= 0
    THEN DivDigit(r, d, (lo + hi + 1) \div 2, hi)
    ELSE DivDigit(r, d, lo, ((lo + hi + 1) \div 2) - 1)

\* long division, digit by digit from the top: q is the quotient of the digits
\* taken so far, r2 what they leave, and k the next digit of the quotient
DivPut(d, q, r2, k) ==
    [q |-> <<k>> \o q, r |-> IF k = 0 THEN r2 ELSE BigSub(r2, BigMulSmall(d, k, 0))]

DivTake(d, q, r2) == DivPut(d, q, r2, DivDigit(r2, d, 0, Base - 1))

RECURSIVE DivFrom(_, _, _)
DivWith(n, d, i, above) == DivTake(d, above.q, BigTrim(<<n[i]>> \o above.r))

DivFrom(n, d, i) ==
    IF i > Len(n) THEN [q |-> <<>>, r |-> <<>>]
    ELSE DivWith(n, d, i, DivFrom(n, d, i + 1))

DivTrimmed(qr) == [q |-> BigTrim(qr.q), r |-> qr.r]

\* [q, r] with n = q * d + r and r < d, for d > 0
BigDivMod(n, d) == DivTrimmed(DivFrom(n, d, 1))

RECURSIVE TrailingZeros(_)
TrailingZeros(x) == IF x % 2 = 1 THEN 0 ELSE 1 + TrailingZeros(x \div 2)

\* the record of m * 2^e
RECURSIVE Canonical(_, _)
Canonical(m, e) ==
    IF m = <<>> THEN [neg |-> FALSE, m |-> <<>>, e |-> 0]
    ELSE IF m[1] = 0 THEN Canonical(Tail(m), e + 15)
    ELSE [neg |-> FALSE, m |-> BigShr(m, TrailingZeros(m[1])),
          e |-> e + TrailingZeros(m[1])]

\* q * 2^e or the next float above it: rem is what was cut off below q, half is
\* half a unit of q
RoundedUp(q, rem, half, e) ==
    IF BigCmp(rem, half) > 0 \/ (BigCmp(rem, half) = 0 /\ q[1] % 2 = 1)
    THEN Canonical(BigAdd(q, <<1>>), e)
    ELSE Canonical(q, e)

\* m * 2^e rounded to 53 bits, ties to even
RoundToDouble(m, e) ==
    IF BitLength(m) <= 53 THEN Canonical(m, e)
    ELSE RoundedUp(BigShr(m, BitLength(m) - 53),
                   BigSub(m, BigShl(BigShr(m, BitLength(m) - 53), BitLength(m) - 53)),
                   BigShl(<<1>>, BitLength(m) - 54),
                   e + (BitLength(m) - 53))

Signed(x, neg) == [x EXCEPT !.neg = neg /\ x.m # <<>>]

\* a * b
FMul(a, b) == Signed(RoundToDouble(BigMul(a.m, b.m), a.e + b.e), a.neg # b.neg)

\* the difference of the magnitudes x * 2^e and y * 2^e, negated if neg
MagnitudeDifference(x, y, e, neg) ==
    IF BigCmp(x, y) >= 0 THEN Signed(RoundToDouble(BigSub(x, y), e), neg)
    ELSE Signed(RoundToDouble(BigSub(y, x), e), ~neg)

\* a + b, both written with the exponent e
AlignedSum(a, b, e) ==
    IF a.neg = b.neg
    THEN Signed(RoundToDouble(BigAdd(BigShl(a.m, a.e - e), BigShl(b.m, b.e - e)), e), a.neg)
    ELSE MagnitudeDifference(BigShl(a.m, a.e - e), BigShl(b.m, b.e - e), e, a.neg)

\* a + b
FAdd(a, b) ==
    IF a.m = <<>> THEN b
    ELSE IF b.m = <<>> THEN a
    ELSE AlignedSum(a, b, IF a.e <= b.e THEN a.e ELSE b.e)

\* a - b
FSub(a, b) == FAdd(a, Signed(b, ~b.neg))

\* the quotient with a bit below it that says whether the division left a
\* remainder, rounded
QuotientRounded(dm, e) ==
    RoundToDouble(BigMulSmall(dm.q, 2, IF dm.r = <<>> THEN 0 ELSE 1), e - 1)

\* a / b with a.m shifted up by s bits so that the quotient has 55 bits or more
ShiftedQuotient(a, b, s) ==
    Signed(QuotientRounded(BigDivMod(BigShl(a.m, s), b.m), a.e - b.e - s),
           a.neg # b.neg)

\* a / b, for b # 0
FDiv(a, b) ==
    ShiftedQuotient(a, b, Max(0, (BitLength(b.m) + 55) - BitLength(a.m)))

\* float(n) of an int n >= 0 below 2^31
FromInt(n) == Canonical(BigOf(n), 0)

\* the float of the decimal literal n / 10^k
FromDecimal(n, k) == FDiv(FromInt(n), FromInt(10^k))

\* int(a) of a float a >= 0 below 2^31
Trunc(a) ==
    IF a.e >= 0 THEN SmallOf(BigShl(a.m, a.e)) ELSE SmallOf(BigShr(a.m, 0 - a.e))

\* a < 0
FNegative(a) == a.neg /\ a.m # <<>>

\* a < b
FLess(a, b) == FNegative(FSub(a, b))

\* min(a, b), which is a unless b < a
FMin(a, b) == IF FLess(b, a) THEN b ELSE a

(***************************************************************************)
(* blue_model.py and trading.py with floats for the floats: the cash, the  *)
(* prices, the fees, the amounts and the percentages are binary64 values,  *)
(* the shares are ints.                                                    *)
(***************************************************************************)
\* x / 100
Percent(x) == FDiv(x, FromInt(100))

\* Position.market_value
market_value_f64(pos) == FMul(FromInt(pos.shares), pos.last_price)

\* sum(...) of the floats from the i-th on, added from left to right to acc
RECURSIVE SumFloats(_, _, _)
SumFloats(values, i, acc) ==
    IF i > Len(values) THEN acc ELSE SumFloats(values, i + 1, FAdd(acc, values[i]))

\* sum(p.market_value for p in positions.values()), from the int 0
PositionsValue_f64(posmap, h) ==
    SumFloats([i \in 1..Len(KeysInOrder(SymbolOrder, DOMAIN posmap)) |->
                  market_value_f64(h[posmap[KeysInOrder(SymbolOrder, DOMAIN posmap)[i]]])],
              1, FromInt(0))

\* BlueModel.get_total_portfolio_value
get_total_portfolio_value_f64(L) == FAdd(L.cash, PositionsValue_f64(L.positions, L.heap))

\* BlueModel._calculate_max_shares, for available_cash > 0
_calculate_max_shares_f64(p, price, available_cash) ==
    Trunc(FDiv(available_cash,
               FMul(price, FAdd(FromInt(1), Percent(p.transaction_fee_percent)))))

\* BlueModel._calculate_investment_amount
_calculate_investment_amount_f64(p, L, signal, available_cash, current_position_value) ==
    IF signal \in {"Strong Buy", "Buy"}
    THEN FMin(FMul(available_cash,
                   Percent(IF signal = "Strong Buy"
                           THEN p.strong_buy_percent ELSE p.buy_percent)),
              FSub(FMul(get_total_portfolio_value_f64(L),
                        Percent(p.max_single_position_percent)),
                   current_position_value))
    ELSE FMul(current_position_value,
              Percent(IF signal = "Strong Sell"
                      THEN p.strong_sell_percent ELSE p.sell_percent))

\* _execute_transaction, "Calculate shares to sell - ensure at least 1 share is sold"
SharesToSell_f64(current_position, amount, current_position_value) ==
    Min(current_position.shares,
        Max(1, Trunc(FMul(FDiv(amount, current_position_value),
                          FromInt(current_position.shares)))))

\* _execute_transaction, "Calculate fees" and "Create transaction"
Transaction_f64(p, date, symbol, signal, price, transaction_type, shares) ==
    [date |-> date, symbol |-> symbol, transaction_type |-> transaction_type,
     signal_type |-> signal, shares |-> shares, price |-> price,
     fees |-> FMul(FMul(FromInt(shares), price), Percent(p.transaction_fee_percent))]

\* Transaction.total_amount
total_amount_f64(t) ==
    IF t.transaction_type = "Buy"
    THEN FAdd(FMul(FromInt(t.shares), t.price), t.fees)
    ELSE FSub(FMul(FromInt(t.shares), t.price), t.fees)

\* _execute_transaction, BUY of a symbol that is held: the average price, the
\* shares and the last price of the position
BoughtInto_f64(position, shares, price) ==
    [position EXCEPT
        !.average_price =
            FDiv(FAdd(FMul(FromInt(position.shares), position.average_price),
                      FMul(FromInt(shares), price)),
                 FromInt(position.shares + shares)),
        !.shares = @ + shares,
        !.last_price = price]

\* _execute_transaction, "Update position": the Position objects
HeapAfter_f64(L, t) ==
    IF t.transaction_type = "Buy"
    THEN IF t.symbol \notin DOMAIN L.positions
         THEN Append(L.heap, [symbol |-> t.symbol, shares |-> t.shares,
                              average_price |-> t.price, last_price |-> t.price])
         ELSE [L.heap EXCEPT ![L.positions[t.symbol]] = BoughtInto_f64(@, t.shares, t.price)]
    ELSE [L.heap EXCEPT ![L.positions[t.symbol]] = SoldFrom(@, t.shares, t.price)]

\* _execute_transaction, "Update position": the positions dict and the cash
Updated_f64(L, t, heapAfter) ==
    [L EXCEPT
        !.heap = heapAfter,
        !.positions =
            IF t.transaction_type = "Sell"
            THEN PositionsAfterSell(@, heapAfter, t.symbol)
            ELSE IF t.symbol \in DOMAIN @ THEN @
            ELSE [s \in DOMAIN @ \cup {t.symbol} |->
                     IF s = t.symbol THEN Len(L.heap) + 1 ELSE @[s]],
        !.cash =
            IF t.transaction_type = "Buy"
            THEN FSub(@, total_amount_f64(t))
            ELSE FAdd(@, total_amount_f64(t))]

\* _execute_transaction, from "Calculate the investment value after this
\* transaction" to the appends, on the ledger with the position updated
Logged_f64(L, t, transaction_signature) ==
    [L EXCEPT
        !.processed_transaction_signatures = @ \cup {transaction_signature},
        !.transaction_counter = @ + 1,
        !.transaction_records =
            Append(@, [date |-> t.date, symbol |-> t.symbol,
                       type |-> t.transaction_type, signal |-> t.signal_type,
                       shares |-> t.shares, price |-> t.price, fees |-> t.fees,
                       total |-> total_amount_f64(t),
                       available_capital |-> L.cash,
                       investment_value |-> PositionsValue_f64(L.positions, L.heap),
                       portfolio_total |-> get_total_portfolio_value_f64(L),
                       sequence_num |-> L.transaction_counter + 1]),
        !.transactions = Append(@, t)]

\* _execute_transaction, from "Calculate fees" on
Executed_f64(L, t, transaction_signature) ==
    [L |-> Logged_f64(Updated_f64(L, t, HeapAfter_f64(L, t)), t, transaction_signature),
     result |-> "executed",
     transaction |-> t]

\* _execute_transaction, from the duplicate check on
ExecuteChecked_f64(p, L, date, symbol, signal, price, transaction_type, shares) ==
    IF shares <= 0 THEN Rejected(L, "zero_shares")
    ELSE IF _get_transaction_signature(date, symbol, transaction_type, shares, price)
                \in L.processed_transaction_signatures
    THEN Rejected(L, "duplicate")
    ELSE Executed_f64(L,
             Transaction_f64(p, date, symbol, signal, price, transaction_type, shares),
             _get_transaction_signature(date, symbol, transaction_type, shares, price))

\* _execute_transaction, from "if amount <= 0" on
ExecuteAmount_f64(p, L, date, symbol, signal, price, current_position_value, amount) ==
    IF amount.neg \/ amount.m = <<>> THEN Rejected(L, "no_amount")
    ELSE IF signal \in {"Strong Buy", "Buy"}
    THEN ExecuteChecked_f64(p, L, date, symbol, signal, price, "Buy",
                            _calculate_max_shares_f64(p, price, amount))
    ELSE IF symbol \notin DOMAIN L.positions THEN Rejected(L, "no_position")
    ELSE ExecuteChecked_f64(p, L, date, symbol, signal, price, "Sell",
                            SharesToSell_f64(L.heap[L.positions[symbol]], amount,
                                             current_position_value))

\* _execute_transaction, from "Calculate investment amount" on
ExecuteValued_f64(p, L, date, symbol, signal, price, current_position_value) ==
    ExecuteAmount_f64(p, L, date, symbol, signal, price, current_position_value,
        _calculate_investment_amount_f64(p, L, signal, L.cash, current_position_value))

\* BlueModel._execute_transaction for a signal to buy or to sell and a price > 0
_execute_transaction_f64(p, L, date, symbol, signal, price) ==
    ExecuteValued_f64(p, L, date, symbol, signal, price,
        IF symbol \in DOMAIN L.positions
        THEN market_value_f64(L.heap[L.positions[symbol]])
        ELSE FromInt(0))

(***************************************************************************)
(* The float specification: a BlueModel whose initial capital is what a    *)
(* whole number of shares costs with the fee, and calls of                 *)
(* _execute_transaction and update_position_values on it, in the floats of *)
(* the code.                                                               *)
(***************************************************************************)
MaxFloatTx == 2         \* executed transactions per ledger in the float specification
MaxFloatShares == 4     \* the shares that the initial capital pays for

FloatSymbol == "A"
PriceTenths == {1, 3}           \* the prices 0.1 and 0.3
FeeTenths == {1, 5}             \* the fees of 0.1 and of 0.5 percent

FloatPrices == {FromDecimal(price, 1) : price \in PriceTenths}

\* SimulationParameters with every percentage as far as is_valid lets it go and
\* an initial_capital of shares * price * (1 + fee / 100), written as a decimal
FloatParameters ==
    {[start_date |-> 0,
      initial_capital |-> FromDecimal(shares * price * (1000 + fee), 4),
      transaction_fee_percent |-> FromDecimal(fee, 1),
      strong_buy_percent |-> FromInt(100), buy_percent |-> FromInt(50),
      sell_percent |-> FromInt(50), strong_sell_percent |-> FromInt(100),
      max_single_position_percent |-> FromInt(100)] :
        shares \in 1..MaxFloatShares, price \in PriceTenths, fee \in FeeTenths}

InitFloat ==
    /\ parameters \in FloatParameters
    /\ cash = parameters.initial_capital
    /\ positions = EmptyDict
    /\ heap = <<>>
    /\ transactions = <<>>
    /\ transaction_records = <<>>
    /\ snapshots = <<>>
    /\ processed_transaction_signatures = {}
    /\ transaction_counter = 0
    /\ sizing = <<>>
    /\ exposure = <<>>
    /\ lastOp = [op |-> "__init__", result |-> "returned"]
    /\ watchlist = <<>>
    /\ progress_callback = FALSE
    /\ now = MaxNow
    /\ pc = "float"
    /\ current_date = 0
    /\ days_processed = 0
    /\ raised = None
    /\ results = None
    /\ market = <<>>
    /\ calls = 0
    /\ previous_results = None
    /\ args = None
    /\ ret = None

\* a call of BlueModel._execute_transaction
ExecuteFloat(date, symbol, signal, price) ==
    /\ pc = "float"
    /\ \E r \in {_execute_transaction_f64(parameters, Ledger, date, symbol, signal, price)} :
           /\ Len(r.L.transactions) <= MaxFloatTx
           /\ SetLedger(r.L)
           /\ lastOp' = [op |-> "_execute_transaction", result |-> r.result]
    /\ UNCHANGED <<parameters, driverVars, engineVars, callVars>>

\* a call of BlueModel.update_position_values
UpdateFloat(prices) ==
    /\ pc = "float"
    /\ \E after \in {update_position_values(Ledger, prices)} : SetLedger(after)
    /\ lastOp' = [op |-> "update_position_values", result |-> "returned"]
    /\ UNCHANGED <<parameters, driverVars, engineVars, callVars>>

NextFloat ==
    \/ \E signal \in SignalType \ {"Neutral"}, price \in FloatPrices :
           ExecuteFloat(0, FloatSymbol, signal, price)
    \/ \E price \in FloatPrices : UpdateFloat([s \in {FloatSymbol} |-> price])

SpecFloat == InitFloat /\ [][NextFloat]_vars


(***************************************************************************)
(* Properties of the ledger.                                               *)
(***************************************************************************)
\* the sum of shares x price over the logged transactions of one type, in thousandths
GrossOf(type) ==
    SumSeq([i \in 1..Len(transactions) |->
               IF transactions[i].transaction_type = type
               THEN transactions[i].shares * transactions[i].price * 1000 ELSE 0])

\* the sum of the fees of the logged transactions of one type
FeesOf(type) ==
    SumSeq([i \in 1..Len(transactions) |->
               IF transactions[i].transaction_type = type THEN transactions[i].fees ELSE 0])

\* initial_capital + sum(sell proceeds - fees) - sum(buy costs + fees)
BookValue ==
    (parameters.initial_capital * 1000)
    + (GrossOf("Sell") - FeesOf("Sell")) - (GrossOf("Buy") + FeesOf("Buy"))

\* C1 as stated: cash plus the market value of the held positions equals
\* initial_capital + sum over Sells of (shares x price - fees)
\* - sum over Buys of (shares x price + fees).
C1_ConservationAsStated ==
    cash + PositionsValue(positions, heap) = BookValue

\* C1 amended: cash plus the market value of the held positions exceeds
\* initial_capital + sum over Sells of (shares x price - fees)
\* - sum over Buys of (shares x price + fees) by exactly the market value of the
\* held positions.
C1_LedgerConservation ==
    (cash + PositionsValue(positions, heap)) - BookValue = PositionsValue(positions, heap)

\* a position is held after a buy and a sell that both paid a fee
C1_Witness ==
    /\ PositionsValue(positions, heap) > 0
    /\ FeesOf("Buy") > 0
    /\ FeesOf("Sell") > 0

\* C2: every entry of the positions map has shares > 0 and every recorded
\* transaction has shares > 0.
C2_NoNegativeShares ==
    /\ \A s \in DOMAIN positions : heap[positions[s]].shares > 0
    /\ \A i \in 1..Len(transactions) : transactions[i].shares > 0

\* the last call sold every share of a position bought before and its entry is gone
C2_Witness ==
    /\ lastOp = [op |-> "_execute_transaction", result |-> "executed"]
    /\ transactions[Len(transactions)].transaction_type = "Sell"
    /\ transactions[Len(transactions)].symbol \notin DOMAIN positions
    /\ Len(transactions) >= 2


\* the (date, symbol, direction, shares) of a logged transaction
KeyOf(t) == <<t.date, t.symbol, t.transaction_type, t.shares>>

\* C3: the transaction log never contains two transactions with the same
\* (date, symbol, direction, shares), and a call that found its key in the
\* executed-keys set recorded nothing: every logged key is in the set once.
C3_DedupIdempotence ==
    /\ \A i, j \in 1..Len(transactions) :
           KeyOf(transactions[i]) = KeyOf(transactions[j]) => i = j
    /\ Cardinality(processed_transaction_signatures) = Len(transactions)

\* the last call computed a key that was in the set already and returned None
C3_Witness ==
    /\ lastOp = [op |-> "_execute_transaction", result |-> "duplicate"]
    /\ Len(transactions) >= 1

\* C4: two calls of execute() in a row with the same (date, symbol, signal, price)
\* record at most one Transaction: the second records nothing when the first
\* recorded one.
C4_SameSignalTwice ==
    [][~ /\ lastOp = [op |-> "_execute_transaction", result |-> "executed"]
         /\ lastOp' = [op |-> "_execute_transaction", result |-> "executed"]
         /\ Len(transactions') = Len(transactions) + 1
         /\ LET first == transactions[Len(transactions)]
                second == transactions'[Len(transactions')]
            IN  /\ second.date = first.date
                /\ second.symbol = first.symbol
                /\ second.signal_type = first.signal_type
                /\ second.price = first.price]_vars

\* C6: the sequence_num of every record is strictly greater than that of every
\* record appended before it, also among records of one date, and a call that
\* records nothing leaves the sequence counter as it was.
C6_SequenceNumbers ==
    [][/\ \A i, j \in 1..Len(transaction_records') :
              i < j => transaction_records'[i].sequence_num
                       < transaction_records'[j].sequence_num
       /\ Len(transaction_records') = Len(transaction_records)
              => transaction_counter' = transaction_counter
       /\ Len(transaction_records') # Len(transaction_records)
              => /\ Len(transaction_records') = Len(transaction_records) + 1
                 /\ SubSeq(transaction_records', 1, Len(transaction_records))
                        = transaction_records
                 /\ transaction_counter'
                        = transaction_records'[Len(transaction_records')].sequence_num]_vars

\* two records share a date and the last call was rejected
C6_Witness ==
    /\ Len(transaction_records) >= 2
    /\ transaction_records[1].date = transaction_records[2].date
    /\ lastOp.op = "_execute_transaction"
    /\ lastOp.result # "executed"


(***************************************************************************)
(* Properties of a run.                                                    *)
(***************************************************************************)
\* the cash at the start of the day of the k-th snapshot
CashBeforeDay(k) ==
    IF k = 1 THEN parameters.initial_capital * 1000 ELSE snapshots[k - 1].cash

\* the sum of the totals of the records of type among the first n of a day's records
TotalsOf(records, type, n) ==
    SumSeq([i \in 1..n |-> IF records[i].type = type THEN records[i].total ELSE 0])

\* C5: in the records of every simulated day all Sell records have smaller
\* sequence numbers than all Buy records, and every buy of the day is sized from
\* the cash at the start of the day plus the totals of all the day's sells minus
\* the totals of the day's earlier buys.
C5_SellFirst ==
    \A k \in 1..Len(snapshots) :
        LET records == snapshots[k].transaction_records
        IN  \A j \in 1..Len(records) :
                records[j].type = "Buy" =>
                    /\ \A i \in 1..Len(records) :
                           records[i].type = "Sell"
                               => records[i].sequence_num < records[j].sequence_num
                    /\ sizing[records[j].sequence_num]
                           = CashBeforeDay(k) + TotalsOf(records, "Sell", Len(records))
                             - TotalsOf(records, "Buy", j - 1)

\* a day on which a sell and a buy were executed
C5_Witness ==
    \E k \in 1..Len(snapshots) :
        /\ \E i \in 1..Len(snapshots[k].transaction_records) :
               snapshots[k].transaction_records[i].type = "Sell"
        /\ \E j \in 1..Len(snapshots[k].transaction_records) :
               snapshots[k].transaction_records[j].type = "Buy"

\* what a snapshot shows: its cash, its positions' fields and its total_value
SnapshotView(s, h) ==
    [cash |-> s.cash,
     positions |-> [y \in DOMAIN s.positions |-> h[s.positions[y]]],
     total_value |-> total_value(s, h)]

\* C8: no step changes the cash, the positions' shares, average_price or
\* last_price, or the total_value of a snapshot appended before it.
C8_SnapshotIndependence ==
    [][\A k \in 1..Len(snapshots) :
           /\ k <= Len(snapshots')
           /\ SnapshotView(snapshots'[k], heap') = SnapshotView(snapshots[k], heap)]_vars

\* a snapshot shows a position whose live state has changed since
C8_Witness ==
    \E k \in 1..Len(snapshots) : \E y \in DOMAIN snapshots[k].positions :
        /\ y \in DOMAIN positions
        /\ heap[positions[y]].shares # heap[snapshots[k].positions[y]].shares
        /\ heap[positions[y]].last_price # heap[snapshots[k].positions[y]].last_price

\* the number of days start_date + k days that are not after now
SimulatedDays == ((now - parameters.start_date) \div 2) + 1

\* C7: the run has appended exactly one snapshot for every day it has processed,
\* dated start_date, start_date + 1 day, ... in this order, and a run that
\* returned has one for every simulated day.
C7_SnapshotPerDay ==
    /\ Len(snapshots) = days_processed
    /\ \A k \in 1..Len(snapshots) : snapshots[k].date = parameters.start_date + (2 * (k - 1))
    /\ pc = "done" => Len(snapshots) = SimulatedDays

\* a run returned after a day with transactions, a day without, and a last day
\* without any signal
C7_Witness ==
    /\ pc = "done"
    /\ lastOp.op = "_create_snapshot"
    /\ \E k \in 1..Len(snapshots) : snapshots[k].daily_transactions # <<>>
    /\ Len(snapshots) >= 2

\* the messages of the constraints that the parameters violate at the clock reading t
ViolatedConstraints(p, t) ==
    {m \in {"Initial capital must be greater than 0"} : ~(p.initial_capital > 0)}
    \cup {m \in {"Start date must be in the past"} : ~(p.start_date < t)}
    \cup {PercentageNames[i] \o " must be between 0 and 100 percent" :
             i \in {j \in 1..Len(PercentageNames) :
                       Percentages(p)[j] < 0 \/ Percentages(p)[j] > 1000}}

\* C9: with parameters that violate a constraint no day is processed, no
\* snapshot is created and the ledger stays as constructed, and the error raised
\* lists every violated constraint.
C9_ValidationFailure ==
    ViolatedConstraints(parameters, now) # {} =>
        /\ pc \in {"call", "raised"}
        /\ Ledger = NewLedger(parameters)
        /\ days_processed = 0
        /\ pc = "raised" =>
               /\ raised.type = "ValueError"
               /\ Range(raised.errors) = ViolatedConstraints(parameters, now)
               /\ Len(raised.errors) = Cardinality(ViolatedConstraints(parameters, now))

\* the run raised for parameters that violate three constraints
C9_Witness ==
    /\ pc = "raised"
    /\ Cardinality(ViolatedConstraints(parameters, now)) = 3

\* C10: for valid parameters the run returns a complete SimulationResults, and
\* the only error a run raises is the parameter-validation error.
C10_OnlyValidationErrors ==
    /\ pc = "raised" => /\ raised.type = "ValueError"
                        /\ ~is_valid(parameters, now)
    /\ pc = "done" => /\ results # None
                      /\ Len(results.portfolio_values) = SimulatedDays

\* C11: the loop of a run with valid parameters ends by returning, after one pass
\* for every day start_date + k days that is not after now, taken once each in
\* ascending order, and it ends as soon as current_date exceeds now.
C11_DriverLoop ==
    is_valid(parameters, now) =>
        /\ pc = "loop" => /\ current_date = parameters.start_date + (2 * days_processed)
                          /\ current_date - 2 <= now
        /\ \A k \in 1..Len(snapshots) :
               snapshots[k].date = parameters.start_date + (2 * (k - 1))
        /\ pc \in {"done", "raised"} =>
               /\ pc = "done"
               /\ days_processed = SimulatedDays
               /\ current_date > now
               /\ current_date - 2 <= now

\* the entries of a list of symbols that are not the symbol s, by their indices
RECURSIVE OtherEntries(_, _, _)
OtherEntries(symbols, s, i) ==
    IF i > Len(symbols) THEN <<>>
    ELSE (IF symbols[i] # s THEN <<i>> ELSE <<>>) \o OtherEntries(symbols, s, i + 1)

\* the ledger after a day on which only the entries idx of the watchlist are fetched
DayWithout(idx, f) ==
    LET symbols == [k \in 1..Len(idx) |-> watchlist[idx[k]]]
        outcomes == [k \in 1..Len(idx) |-> f[idx[k]]]
    IN  ProcessDay(parameters, Ledger, current_date,
                   SignalsOf(symbols, outcomes), PricesOf(symbols, outcomes)).L

\* the fetch outcomes of a day on which every fetch for the symbol s is skipped
RECURSIVE SkipChoices(_, _)
SkipChoices(symbols, s) ==
    IF symbols = <<>> THEN {<<>>}
    ELSE {<<o>> \o rest :
             o \in IF Head(symbols) = s THEN {Skipped} ELSE FetchOutcomes(Head(symbols)),
             rest \in SkipChoices(Tail(symbols), s)}

\* C12: on a day on which every fetch for a symbol fails or gives fewer than 30
\* bars, the symbol gets no signal and no price, its held position stays as it
\* was and no transaction is recorded for it, the ledger is what the day gives for
\* the other symbols alone, the day's snapshot is taken and the loop goes on to
\* the next day.  (A step that counts a day is a pass of the loop that fetched,
\* and lastOp.skipped holds the symbols that the pass had no price for.)
C12_FetchFailureSkips ==
    [][\A s \in Range(watchlist) : \A f \in SkipChoices(watchlist, s) :
              (/\ pc = "loop"
               /\ days_processed' = days_processed + 1
               /\ s \in lastOp'.skipped
               /\ Day(f)) =>
                      /\ s \notin DOMAIN PricesOf(watchlist, f)
                      /\ \A i \in 1..Len(SignalsOf(watchlist, f)) :
                             SignalsOf(watchlist, f)[i][1] # s
                      /\ s \in DOMAIN positions =>
                             /\ s \in DOMAIN positions'
                             /\ positions'[s] = positions[s]
                             /\ heap'[positions'[s]] = heap[positions[s]]
                      /\ \A i \in (Len(transactions) + 1)..Len(transactions') :
                             transactions'[i].symbol # s
                      /\ Ledger' = DayWithout(OtherEntries(watchlist, s, 1), f)
                      /\ Len(snapshots') = Len(snapshots) + 1
                      /\ snapshots'[Len(snapshots')].date = current_date
                      /\ pc' = "loop"
                      /\ current_date' = current_date + 2]_vars

\* on the last day the fetch for a held symbol was skipped and the other symbol
\* of the watchlist was traded
C12_Witness ==
    /\ lastOp.op = "process_signals"
    /\ \E s \in lastOp.skipped : s \in DOMAIN positions
    /\ snapshots[Len(snapshots)].daily_transactions # <<>>

\* C13: a call of execute() that records no trade returns None and leaves cash,
\* positions, the position objects, the transaction log, the transaction
\* records, the sequence counter and the executed-keys set as they were.
C13_NoTradeNoChange ==
    [][(lastOp'.op = "_execute_transaction" /\ lastOp'.result # "executed") =>
           /\ lastOp'.result \in {"no_amount", "zero_shares", "no_position",
                                  "duplicate", "exception"}
           /\ cash' = cash
           /\ positions' = positions
           /\ heap' = heap
           /\ transactions' = transactions
           /\ transaction_records' = transaction_records
           /\ transaction_counter' = transaction_counter
           /\ processed_transaction_signatures' = processed_transaction_signatures]_vars

\* the last call raised inside execute() on a ledger that holds a position
C13_Witness ==
    /\ lastOp = [op |-> "_execute_transaction", result |-> "exception"]
    /\ positions # EmptyDict
    /\ Len(transactions) >= 1

C16_DuplicateSymbols ==
    /\ \A i, j \in 1..Len(transactions) :
           (/\ transactions[i].date = transactions[j].date
            /\ transactions[i].symbol = transactions[j].symbol) => i = j
    /\ lastOp.op \in {"process_signals", "_create_snapshot"} =>
           /\ ~lastOp.repeated
           /\ lastOp.duplicates = 0

\* a symbol that the watchlist lists twice was traded on two days
C16_Witness ==
    /\ \E i, j \in 1..Len(watchlist) : i # j /\ watchlist[i] = watchlist[j]
    /\ Len(transactions) >= 2
    /\ transactions[1].symbol = transactions[2].symbol


(***************************************************************************)
(* Properties of the functions.                                            *)
(***************************************************************************)
\* the script of the buys of 100 at 10 and 50 at 12 and the sell of 120 at 15
FifoScript == <<<<"A", "Buy", 100, 10>>, <<"A", "Buy", 50, 12>>, <<"A", "Sell", 120, 15>>>>

\* the shares that the completed trades take from the lot bought on buy_date
TakenFrom(trades, symbol, buy_date) ==
    SumSeq([i \in 1..Len(trades) |->
               IF trades[i].symbol = symbol /\ trades[i].buy_date = buy_date
               THEN trades[i].shares_sold ELSE 0])

\* the shares that the completed trades match with the sell made on sell_date
MatchedWith(trades, symbol, sell_date) ==
    SumSeq([i \in 1..Len(trades) |->
               IF /\ trades[i].symbol = symbol
                  /\ trades[i].buy_date + (2 * trades[i].holding_period) = sell_date
               THEN trades[i].shares_sold ELSE 0])

\* C17: the completed trades of a symbol take its buy lots oldest first, a lot is
\* used up before the next one is touched, every sell is matched in full, and
\* the buys of 100 at 10 and 50 at 12 followed by the sell of 120 at 15 give
\* exactly two completed trades, of 100 shares of the first lot and 20 of the
\* second, and leave 30 shares of the second lot open.
C17_FifoMatching ==
    (ret # None /\ args.fn = "_calculate_metrics") =>
        LET trades == ret.matched.completed_trades
            txs == ret.results.transactions
        IN  /\ \A i, j \in 1..Len(trades) :
                   (i < j /\ trades[i].symbol = trades[j].symbol) =>
                       /\ trades[i].buy_date <= trades[j].buy_date
                       /\ trades[i].buy_date < trades[j].buy_date =>
                              \E k \in 1..Len(txs) :
                                  /\ txs[k].transaction_type = "Buy"
                                  /\ txs[k].symbol = trades[i].symbol
                                  /\ txs[k].date = trades[i].buy_date
                                  /\ txs[k].shares
                                         = TakenFrom(trades, txs[k].symbol, txs[k].date)
            /\ \A k \in 1..Len(txs) :
                   txs[k].transaction_type = "Sell" =>
                       MatchedWith(trades, txs[k].symbol, txs[k].date) = txs[k].shares
            /\ args.snapshots = TradeSnapshots(DefaultParameters, FifoScript) =>
                   /\ Len(trades) = 2
                   /\ trades[1].shares_sold = 100 /\ trades[1].buy_date = 0
                   /\ trades[2].shares_sold = 20 /\ trades[2].buy_date = 2
                   /\ trades[1].profit = <<497500, 1>>
                   /\ trades[2].profit = <<59460, 1>>
                   /\ DOMAIN ret.matched.position_start_dates = {"A"}
                   /\ Len(ret.matched.position_start_dates["A"]) = 1
                   /\ ret.matched.position_start_dates["A"][1].shares = 30
                   /\ ret.matched.position_start_dates["A"][1].price = 12

\* the metrics of the script of C17 have been calculated
C17_Witness ==
    /\ ret # None
    /\ args.fn = "_calculate_metrics"
    /\ args.snapshots = TradeSnapshots(DefaultParameters, FifoScript)
    /\ Len(ret.matched.completed_trades) = 2

\* the greatest of the first j values
RunningMaximum(values, j) ==
    CHOOSE m \in {values[i] : i \in 1..j} : \A i \in 1..j : values[i] <= m

\* C19: max_drawdown is the greatest (running maximum - value) / running maximum
\* of the portfolio values, times 100 and not negative; it is 25 for the values
\* 100, 120, 90, 110 and 0 for values that never fall.
C19_MaxDrawdown ==
    (ret # None /\ args.fn = "_calculate_metrics") =>
        LET values == ret.results.portfolio_values
            dd == ret.results.max_drawdown
        IN  /\ dd[2] > 0
            /\ dd[1] >= 0
            /\ \A j \in 1..Len(values) :
                   (RunningMaximum(values, j) - values[j]) * 100 * dd[2]
                       <= dd[1] * RunningMaximum(values, j)
            /\ \E j \in 1..Len(values) :
                   (RunningMaximum(values, j) - values[j]) * 100 * dd[2]
                       = dd[1] * RunningMaximum(values, j)
            /\ values = <<100000, 120000, 90000, 110000>> => dd = <<25, 1>>
            /\ (\A j \in 2..Len(values) : values[j - 1] <= values[j]) => dd = <<0, 1>>

\* the metrics of the portfolio values 100, 120, 90, 110 have been calculated
C19_Witness ==
    /\ ret # None
    /\ args.fn = "_calculate_metrics"
    /\ ret.results.portfolio_values = <<100000, 120000, 90000, 110000>>

\* the threshold of a rule of the call: its trend_strength, the default without one
ThresholdOfCall(key, default) ==
    IF key \in DOMAIN args.params /\ "trend_strength" \in DOMAIN args.params[key]
    THEN args.params[key].trend_strength
    ELSE default

\* C20: with the MACD values read, the signal is Strong Buy when strength >= the
\* strong_buy threshold; else Buy when strength >= the buy threshold; else Strong
\* Sell when strength <= the strong_sell threshold; else Sell when strength <=
\* the sell threshold; else Neutral.  A threshold missing from the params is 0.5
\* for strong_buy, 0 for buy, 0 for sell, -0.5 for strong_sell, so that a
\* strength of 0 without any params is Buy.
C20_ClassifierPriority ==
    (ret # None /\ args.fn = "_analyze_macd_signal" /\ args.macd_values) =>
        LET g == args.strength
            strong_buy == ThresholdOfCall("strong_buy", 5)
            buy == ThresholdOfCall("buy", 0)
            sell == ThresholdOfCall("sell", 0)
            strong_sell == ThresholdOfCall("strong_sell", -5)
        IN  /\ g >= strong_buy => ret.signal = "Strong Buy"
            /\ (g < strong_buy /\ g >= buy) => ret.signal = "Buy"
            /\ (g < strong_buy /\ g < buy /\ g <= strong_sell) => ret.signal = "Strong Sell"
            /\ (g < strong_buy /\ g < buy /\ g > strong_sell /\ g <= sell)
                   => ret.signal = "Sell"
            /\ (g < strong_buy /\ g < buy /\ g > strong_sell /\ g > sell)
                   => ret.signal = "Neutral"
            /\ (DOMAIN args.params = {} /\ g = 0) => ret.signal = "Buy"

\* a strength of 0 has been classified without any params
C20_Witness ==
    /\ ret # None
    /\ args.fn = "_analyze_macd_signal"
    /\ args.macd_values
    /\ DOMAIN args.params = {}
    /\ args.strength = 0
    /\ ret.signal = "Buy"


(***************************************************************************)
(* Properties of the engine.                                               *)
(***************************************************************************)
\* C15: every call of run_simulation starts from a fresh ledger, so that a second
\* call on the same engine over the same market data returns the snapshots'
\* values and the transactions that the first call returned.
C15_FreshLedgerEachRun ==
    /\ (calls >= 2 /\ pc = "loop" /\ days_processed = 0) =>
           /\ cash = NewLedger(parameters).cash
           /\ positions = NewLedger(parameters).positions
           /\ snapshots = NewLedger(parameters).snapshots
           /\ transactions = NewLedger(parameters).transactions
           /\ processed_transaction_signatures
                  = NewLedger(parameters).processed_transaction_signatures
    /\ (calls >= 2 /\ pc = "done") =>
           /\ results.portfolio_values = previous_results.portfolio_values
           /\ results.cash_values = previous_results.cash_values
           /\ results.transactions = previous_results.transactions

\* the market data give Neutral on every day but one Strong Buy and, on a later
\* day, one Strong Sell
OneBuyThenOneSell ==
    \E b, y \in DOMAIN market :
        /\ b < y
        /\ market[b][1].fetched /\ market[b][1].signal = "Strong Buy"
        /\ market[y][1].fetched /\ market[y][1].signal = "Strong Sell"
        /\ \A k \in DOMAIN market \ {b, y} :
               market[k][1].fetched /\ market[k][1].signal = "Neutral"

RoundHalfEven(n, d) ==
    IF 2 * (n % d) < d THEN n \div d
    ELSE IF 2 * (n % d) > d THEN (n \div d) + 1
    ELSE IF (n \div d) % 2 = 0 THEN n \div d ELSE (n \div d) + 1

\* the percentage of the position that a sell signal asks to sell
SellPercent(signal) ==
    IF signal = "Strong Sell" THEN parameters.strong_sell_percent
    ELSE parameters.sell_percent

\* the step is a call of execute() that recorded a trade of the given type
ExecutedStep(transaction_type) ==
    /\ lastOp'.op = "_execute_transaction"
    /\ lastOp'.result = "executed"
    /\ Len(transactions') = Len(transactions) + 1
    /\ transactions'[Len(transactions')].transaction_type = transaction_type

\* C21 as stated: an executed sell sells max(1, round(amount / position_value x
\* shares)) shares, capped at the held shares, where amount is the percentage of
\* the signal's category of the position's market value.
C21_SellSizingAsStated ==
    [][ExecutedStep("Sell") =>
           LET t == transactions'[Len(transactions')]
               held == heap[positions[t.symbol]].shares
           IN  t.shares
                   = Min(held, Max(1, RoundHalfEven(SellPercent(t.signal_type) * held, 100)))]_vars

\* C21 amended: an executed sell sells max(1, int(amount / position_value x
\* shares)) shares, the quotient cut to a whole number and not rounded, capped at
\* the held shares; a Strong Sell with strong_sell_percent = 100 sells every held
\* share and removes the position.
C21_SellSizing ==
    [][ExecutedStep("Sell") =>
           LET t == transactions'[Len(transactions')]
               held == heap[positions[t.symbol]].shares
           IN  /\ t.shares = Min(held, Max(1, (SellPercent(t.signal_type) * held) \div 100))
               /\ (t.signal_type = "Strong Sell" /\ parameters.strong_sell_percent = 100) =>
                      /\ t.shares = held
                      /\ t.symbol \notin DOMAIN positions']_vars

\* a Sell at 50 percent of an odd number of at least three shares sold the half of
\* them cut to a whole number
C21_Witness ==
    /\ Len(transactions) = 2
    /\ lastOp = [op |-> "_execute_transaction", result |-> "executed"]
    /\ transactions[1].transaction_type = "Buy"
    /\ transactions[1].shares >= 3
    /\ transactions[1].shares % 2 = 1
    /\ transactions[2].transaction_type = "Sell"
    /\ transactions[2].signal_type = "Sell"
    /\ transactions[2].symbol = transactions[1].symbol
    /\ parameters.sell_percent = 50
    /\ transactions[2].shares * 2 = transactions[1].shares - 1

\* the target amount of a buy of the symbol on the signal in the current state,
\* times 100: the signal's percentage of the cash, cut to what the cap on one
\* position leaves
BuyAmount(symbol, signal) ==
    LET percent == IF signal = "Strong Buy" THEN parameters.strong_buy_percent
                   ELSE parameters.buy_percent
        held == IF symbol \in DOMAIN positions
                THEN market_value(heap[positions[symbol]]) ELSE 0
    IN  Min(cash * percent,
            ((cash + PositionsValue(positions, heap)) * parameters.max_single_position_percent)
                - (held * 100))

DayStep ==
    /\ lastOp'.op \in {"process_signals", "_create_snapshot"}
    /\ days_processed' = days_processed + 1

\* on a day without a trade the model keeps everything but last_price of the
\* Position objects of held symbols that the day has a price for
OnlyMarksChange ==
    transactions' = transactions =>
        /\ cash' = cash
        /\ positions' = positions
        /\ transaction_records' = transaction_records
        /\ transaction_counter' = transaction_counter
        /\ processed_transaction_signatures' = processed_transaction_signatures
        /\ \A a \in DOMAIN heap :
               /\ heap'[a] = [heap[a] EXCEPT !.last_price = heap'[a].last_price]
               /\ heap'[a].last_price # heap[a].last_price =>
                      \E s \in DOMAIN positions \ lastOp'.skipped : positions[s] = a

\* C24 as stated: on each simulated day update_position_values runs once, before
\* any execute() call of that day, every execute() for a held symbol sees the
\* position's last_price equal to the day's price of the symbol, and
\* update_position_values changes only last_price of held symbols that have a price.
C24_UpdateOnceAsStated ==
    [][DayStep =>
           /\ lastOp'.updates = 1
           /\ lastOp'.updated_first
           /\ lastOp'.marked
           /\ OnlyMarksChange]_vars

\* C24 amended: on each simulated day update_position_values runs before any
\* execute() call of that day, once on a day without signals and twice on a day
\* with signals (run_simulation calls it and process_signals calls it again), so
\* every execute() for a held symbol sees the position's last_price equal to the
\* day's price of the symbol; update_position_values changes only last_price of
\* held symbols that have a price.
C24_MarkBeforeTrades ==
    [][DayStep =>
           /\ lastOp'.updates = IF lastOp'.op = "process_signals" THEN 2 ELSE 1
           /\ lastOp'.updated_first
           /\ lastOp'.marked
           /\ OnlyMarksChange]_vars

\* a day sold at 10 a position that was bought at 5 on an earlier day
C24_Witness ==
    /\ lastOp.op = "process_signals"
    /\ lastOp.updates = 2
    /\ Len(transactions) = 2
    /\ transactions[1].transaction_type = "Buy"
    /\ transactions[1].price = 5
    /\ transactions[2].transaction_type = "Sell"
    /\ transactions[2].symbol = transactions[1].symbol
    /\ transactions[2].price = 10
    /\ transactions[2].date > transactions[1].date

\* the record was created for the transaction
RecordOfTransaction(record, t) ==
    /\ record.date = t.date
    /\ record.symbol = t.symbol
    /\ record.type = t.transaction_type
    /\ record.signal = t.signal_type
    /\ record.shares = t.shares
    /\ record.price = t.price
    /\ record.fees = t.fees

\* C25: the transaction_records of each snapshot are the records created by that
\* day's executed transactions, as many as and in the order of the snapshot's
\* daily_transactions, none of them of an earlier day, and every record of the
\* ledger is in exactly one snapshot.
C25_SnapshotRecords ==
    pc \in {"loop", "done"} =>
        /\ \A i \in 1..Len(snapshots) :
               /\ Len(snapshots[i].transaction_records)
                      = Len(snapshots[i].daily_transactions)
               /\ \A j \in 1..Len(snapshots[i].transaction_records) :
                      /\ RecordOfTransaction(snapshots[i].transaction_records[j],
                                             snapshots[i].daily_transactions[j])
                      /\ snapshots[i].transaction_records[j].date = snapshots[i].date
        /\ Flatten([i \in 1..Len(snapshots) |-> snapshots[i].transaction_records])
               = transaction_records

\* a day with two trades follows a day with a trade
C25_Witness ==
    \E i, j \in 1..Len(snapshots) :
        /\ i < j
        /\ Len(snapshots[i].transaction_records) >= 1
        /\ Len(snapshots[j].transaction_records) = 2


(***************************************************************************)
(* Properties of the completed trades.                                     *)
(***************************************************************************)
\* the sum of two fractions
FracSum(a, b) == Frac((a[1] * b[2]) + (b[1] * a[2]), a[2] * b[2])

\* the buy fees that the completed trades from the n-th on charge to the lot
\* bought on buy_date
RECURSIVE BuyFeesOf(_, _, _, _)
BuyFeesOf(trades, symbol, buy_date, n) ==
    IF n > Len(trades) THEN <<0, 1>>
    ELSE IF trades[n].symbol = symbol /\ trades[n].buy_date = buy_date
         THEN FracSum(trades[n].buy_fees, BuyFeesOf(trades, symbol, buy_date, n + 1))
         ELSE BuyFeesOf(trades, symbol, buy_date, n + 1)

\* the buy of 50 at 12 is closed by the sell of 30 and by 20 of the sell of 120
SplitLotScript ==
    <<<<"A", "Buy", 50, 12>>, <<"A", "Sell", 30, 9>>, <<"A", "Buy", 100, 10>>,
      <<"A", "Sell", 120, 15>>>>

\* C26: the buy fee of a completed trade is the fee of its lot times the matched
\* shares over the shares the lot was bought with, so that the buy fees of the
\* completed trades of a lot that is used up add up to the fee of the lot.
C26_ProRatedBuyFees ==
    (ret # None /\ args.fn = "_calculate_metrics") =>
        LET trades == ret.matched.completed_trades
            txs == ret.results.transactions
        IN  \A k \in 1..Len(txs) :
                txs[k].transaction_type = "Buy" =>
                    /\ \A i \in 1..Len(trades) :
                           (trades[i].symbol = txs[k].symbol
                               /\ trades[i].buy_date = txs[k].date) =>
                               trades[i].buy_fees
                                   = Frac(txs[k].fees * trades[i].shares_sold, txs[k].shares)
                    /\ TakenFrom(trades, txs[k].symbol, txs[k].date) = txs[k].shares =>
                           BuyFeesOf(trades, txs[k].symbol, txs[k].date, 1)
                               = <<txs[k].fees, 1>>


(***************************************************************************)
(* Properties of the books.                                                *)
(***************************************************************************)
\* the total_amount of a transaction as it moves the cash: in for a sell, out
\* for a buy
CashFlow(t) ==
    IF t.transaction_type = "Sell" THEN total_amount(t) ELSE 0 - total_amount(t)

\* C27: cash is initial_capital plus the total_amount of every Sell of the
\* transaction log minus the total_amount of every Buy of the log, and only a
\* step that records a transaction changes cash.
C27_CashIdentity ==
    /\ [](cash = (parameters.initial_capital * 1000)
                     + SumSeq([i \in 1..Len(transactions) |-> CashFlow(transactions[i])]))
    /\ [][cash' # cash =>
              /\ lastOp'.op = "_execute_transaction"
              /\ lastOp'.result = "executed"
              /\ transactions' = Append(transactions, transactions'[Len(transactions')])
              /\ cash' = cash + CashFlow(transactions'[Len(transactions')])]_vars

\* the positions have been marked after a buy and a sell that moved the cash
C27_Witness ==
    /\ lastOp.op = "update_position_values"
    /\ \E i, j \in 1..Len(transactions) :
           /\ transactions[i].transaction_type = "Buy"
           /\ transactions[j].transaction_type = "Sell"
    /\ cash # parameters.initial_capital * 1000

\* the shares of a symbol that the transaction log has bought less those it has
\* sold
SharesInLog(symbol) ==
    SumSeq([i \in 1..Len(transactions) |->
               IF transactions[i].symbol # symbol THEN 0
               ELSE IF transactions[i].transaction_type = "Buy"
                    THEN transactions[i].shares
                    ELSE 0 - transactions[i].shares])

\* C28: for every symbol the held shares, 0 when the symbol has no entry in
\* positions, are the Buy shares less the Sell shares of the symbol in the
\* transaction log.
C28_ShareConservation ==
    \A symbol \in Symbols :
        (IF symbol \in DOMAIN positions THEN heap[positions[symbol]].shares ELSE 0)
            = SharesInLog(symbol)

\* a symbol is still held after a buy and a sell of a part of it
C28_Witness ==
    \E held \in DOMAIN positions :
        \E i, j \in 1..Len(transactions) :
            /\ transactions[i].symbol = held
            /\ transactions[i].transaction_type = "Buy"
            /\ transactions[j].symbol = held
            /\ transactions[j].transaction_type = "Sell"
            /\ heap[positions[held]].shares
                   = transactions[i].shares - transactions[j].shares


(***************************************************************************)
(* Properties of the results of a run.                                     *)
(***************************************************************************)
\* C29: the results of a run on a new engine hold the transactions and the
\* transaction records of the ledger, one for one and in order: the
\* deduplication by signature in _calculate_metrics removes no record, and
\* number_of_trades is the number of the executed transactions.
C29_ResultsAreTheLogs ==
    (pc = "done" /\ results # None) =>
        /\ results.transactions = transactions
        /\ results.transaction_records = transaction_records
        /\ results.number_of_trades = Len(transactions)

\* a run has returned results with two trades of one symbol and type
C29_Witness ==
    /\ pc = "done"
    /\ results # None
    /\ \E i, j \in 1..Len(results.transaction_records) :
           /\ i < j
           /\ results.transaction_records[i].symbol = results.transaction_records[j].symbol
           /\ results.transaction_records[i].type = results.transaction_records[j].type

\* the completed trades of the first k of the transactions
TradesUpTo(txs, k) ==
    CompletedTrades(SubSeq(txs, 1, k), 1, EmptyDict, <<>>).completed_trades

\* the shares of the completed trades from the n-th on
SharesSoldFrom(trades, n) ==
    SumSeq([i \in 1..(Len(trades) - n) |-> trades[n + i].shares_sold])

\* the shares that the completed trades match with the k-th transaction
MatchedShares(txs, k) ==
    SharesSoldFrom(TradesUpTo(txs, k), Len(TradesUpTo(txs, k - 1)))

\* C30: for the transaction list that the ledger has produced when
\* run_simulation returns, the completed trades match every Sell in full with
\* earlier Buy lots of its symbol, their matched shares adding up to the shares
\* of the sell, and no completed trade has a holding period below 0 days.
C30_SellsFullyMatched ==
    (pc = "done" /\ results # None) =>
        /\ \A k \in 1..Len(results.transactions) :
               results.transactions[k].transaction_type = "Sell" =>
                   MatchedShares(results.transactions, k) = results.transactions[k].shares
        /\ \A i \in 1..Len(TradesUpTo(results.transactions, Len(results.transactions))) :
               TradesUpTo(results.transactions, Len(results.transactions))[i].holding_period
                   >= 0


(***************************************************************************)
(* Properties of the cash in floats.                                       *)
(***************************************************************************)
\* C23: with valid parameters (every percentage from 0 to 100, initial_capital
\* > 0) and prices > 0, the cash of the ledger is never negative, whatever calls
\* of _execute_transaction and update_position_values have been made.
C23_CashNeverNegative ==
    pc = "float" => ~FNegative(cash)

====
